---- MODULE Spec2Model ----
(***************************************************************************)
(* Event-log variant of synced-folder (src/src): two clients, each running *)
(* watch_local and sync_loop under fs_lock, and one server running the     *)
(* single-threaded HTTP handler (POST /event, GET /sync) next to the       *)
(* watch_storage thread, over a PostgreSQL table file_events whose         *)
(* event_id is a SERIAL column.                                            *)
(*                                                                         *)
(* The polling variant (src/server, src/client, src/clientA) is modelled    *)
(* next to it: the server's storage ROOT with its INDEX_FILE behind the     *)
(* single-threaded HTTP handler, and two clients running sync_once.  The    *)
(* two variants share no state; a run of one leaves the other at rest.      *)
(*                                                                         *)
(* Python dicts are functions with a partial domain, sets are sets, the    *)
(* directory trees are dicts path -> bytes.  Strings stand for bytes,      *)
(* text and digests.                                                       *)
(***************************************************************************)
EXTENDS Integers, Sequences, FiniteSets, TLC

\* ------------------------------------------------------------------ bounds
\* Number of edits made by users (on a client's directory or on the server's
\* storage tree) in one run.
MaxEdits == 2
\* Number of rows the SERIAL sequence hands out in one run.
MaxEvents == 3
\* The same, in the runs with a single user edit.
MaxEventsOne == 5
\* Length of a batch that a test harness hands to sync_loop.
MaxBatch == 2
\* The same as MaxEvents, in the runs that start from a replicated file.
MaxEventsSynced == 5
\* Number of rows of files_log (uploads and deletes the polling server
\* handles) in one run.
MaxLog == 3
\* Seconds that the server's clock runs through in one run.
MaxTime == 2

\* ------------------------------------------------------------- the universe
Clients == {"A", "B"}
SERVER == "SERVER"
Paths == {"a.txt"}
None == "None"

\* File contents a user can write: UTF-8 text with '\n' line ends, and one
\* with a '\r\n' line end.
UserBytes == {"x\n", "y\n", "y\r\n"}
\* The same, without the one that the text-mode read changes.
UserBytesLF == {"x\n", "y\n"}

\* ------------------------------------------------------------ pure helpers
\* dict.get(k): the value, or None.
Get(d, k) == IF k \in DOMAIN d THEN d[k] ELSE None
\* d[k] = v
Put(d, k, v) == [x \in (DOMAIN d) \cup {k} |-> IF x = k THEN v ELSE d[x]]
\* d.pop(k, None)
Pop(d, k) == [x \in (DOMAIN d) \ {k} |-> d[x]]
EmptyDict == [x \in {} |-> None]

\* sha256 of the bytes, hex: one digest per byte string (collision-free on
\* the universe).
hash_file(bytes) == "sha256:" \o bytes

\* open(path, "r", encoding="utf-8").read(): universal newlines turn '\r\n'
\* into '\n'.
ReadText(bytes) == IF bytes = "y\r\n" THEN "y\n" ELSE bytes

\* open(path, "w", encoding="utf-8").write(text): '\n' is written as
\* os.linesep, which is '\n' on the platform of the Dockerfiles (Linux).
WriteText(text) == text

\* hashlib.sha256(content.encode('utf-8')).hexdigest()
hash_text(text) == "sha256:" \o text

NoReq == [client |-> None, path |-> None, hash |-> None, deleted |-> FALSE, content |-> None]
WlIdle == [pc |-> "idle", todo |-> {}, current |-> EmptyDict, req |-> NoReq]
SlIdle == [pc |-> "idle", events |-> <<>>]
WsIdle == [pc |-> "idle", todo |-> {}, current |-> EmptyDict, rel |-> None, h |-> None]
HandlerIdle == [pc |-> "idle", client |-> None]

\* Relative paths of the polling variant, as os.path.splitext splits them.
RelPaths == {[stem |-> "a", ext |-> ".txt"]}
NoPost == [kind |-> None, client |-> None, path |-> None, base_sha |-> None,
           data |-> None]
NoResp == [code |-> 0, ok |-> FALSE, version |-> 0, sha |-> None]
SoIdle == [pc |-> "idle", sidx |-> EmptyDict, lidx |-> EmptyDict, todo |-> {}]
\* main() of the polling server: before init_db's first connection attempt,
\* and in serve_forever after init_db created the table.
MainBoot == [pc |-> "init_db", attempt |-> 0, connected |-> FALSE]
MainServing == [pc |-> "serving", attempt |-> 0, connected |-> TRUE]

\* A file of the persistence layer (.local_state.json, .index.json): whether
\* it exists, and its text as the tokens json.dump wrote.
NoFile == [exists |-> FALSE, text |-> <<>>]
\* No call of the persistence functions has been made.
\* sync_once of clientB is not running; fresh, sent and quiet record the
\* last pass: the paths the folder held and the server's index lacked when
\* it began, the uploads it made, and whether nobody else acted during it.
SyncBIdle == [pc |-> "idle", sidx |-> EmptyDict, lidx |-> EmptyDict,
              todo |-> {}, fresh |-> {},
              sent |-> {}, quiet |-> TRUE]
UtilIdle == [pc |-> "idle", arg |-> <<>>, file |-> NoFile, ret |-> <<>>, calls |-> <<>>]

VARIABLES
    \* ---- client c (src/src/client/client.py)
    synced,             \* SYNC_DIR of c: path -> bytes
    last_event_id,      \* c -> int
    current_state,      \* c -> (path -> hash)
    deleted_paths,      \* c -> set of paths
    pending_events,     \* c -> set of <<path, hash, deleted>>
    fs_lock,            \* c -> "free" | "watch" | "sync"
    known,              \* c -> (path -> hash), local of watch_local
    wl,                 \* c -> position of watch_local
    sl,                 \* c -> position of sync_loop
    \* ---- server (src/src/server/server.py)
    storage,            \* STORAGE_DIR: path -> bytes
    file_events,        \* committed rows of table file_events
    event_id_seq,       \* last value handed out by the SERIAL sequence
    txn,                \* rows watch_storage inserted and has not committed
    recently_written_files, \* path -> hash
    srv_known,          \* local of watch_storage
    ws,                 \* position of watch_storage
    handler,            \* position of the HTTP server's only thread
    \* ---- environment and history
    edits,              \* user edits made so far
    limits,             \* the run's bounds: [edits, events]
    processed           \* c -> event ids the for loop of sync_loop has taken

VARIABLES
    \* ---- polling server (src/server/server.py)
    ROOT,               \* the storage folder: path -> bytes
    INDEX_FILE,         \* .index.json: path -> [sha, version]
    files_log,          \* number of rows of table files_log
    now,                \* int(time.time()) on the server
    last_req,           \* the last POST the handler took
    last_resp,          \* and its response
    main,               \* position of main() and of its call of init_db
    util,               \* a call sequence of the persistence functions
                        \* (load_state, save_state, load_index, save_index)
                        \* on a folder of its own: argument, file, result
    \* ---- polling client c (src/client/client.py, src/clientA/client.py)
    SYNC_DIR,           \* c -> the local folder of c: path -> bytes
    STATE_FILE,         \* c -> the "files" list of .local_state.json
    so,                 \* c -> position of sync_once and its locals
    \* ---- history
    base_sync           \* c -> (path -> sha of the bytes c last uploaded,
                        \*       downloaded or found equal to the server's)

VARIABLES
    \* ---- timestamp-based polling client (src/clientB/client.py)
    LOCAL_FOLDER,       \* the folder LOCAL: path -> [data, mtime]
    LOCAL_STATE,        \* the "files" list of its .local_state.json
    sync_b,             \* position of its sync_once and its locals
    ROOT_mtime          \* st_mtime of the files under ROOT that the handler
                        \* wrote while this client runs: path -> second

clientBVars == <<LOCAL_FOLDER, LOCAL_STATE, sync_b, ROOT_mtime>>

pollVars == <<ROOT, INDEX_FILE, files_log, now, last_req, last_resp, main, util,
              SYNC_DIR, STATE_FILE, so, base_sync, clientBVars>>

vars == <<synced, last_event_id, current_state, deleted_paths, pending_events,
          fs_lock, known, wl, sl, storage, file_events, event_id_seq, txn,
          recently_written_files, srv_known, ws, handler, edits, limits,
          processed, pollVars>>

clientVars == <<synced, last_event_id, current_state, deleted_paths,
                pending_events, fs_lock, known, wl, sl, processed>>
envVars == <<edits, limits>>
serverVars == <<storage, file_events, event_id_seq, txn,
                recently_written_files, srv_known, ws, handler>>

Stopped ==
    /\ synced = [c \in Clients |-> EmptyDict]
    /\ last_event_id = [c \in Clients |-> 0]
    /\ current_state = [c \in Clients |-> EmptyDict]
    /\ deleted_paths = [c \in Clients |-> {}]
    /\ pending_events = [c \in Clients |-> {}]
    /\ fs_lock = [c \in Clients |-> "free"]
    /\ known = [c \in Clients |-> EmptyDict]
    /\ wl = [c \in Clients |-> WlIdle]
    /\ sl = [c \in Clients |-> SlIdle]
    /\ storage = EmptyDict
    /\ file_events = {}
    /\ event_id_seq = 0
    /\ txn = {}
    /\ recently_written_files = EmptyDict
    /\ srv_known = EmptyDict
    /\ ws = WsIdle
    /\ handler = HandlerIdle
    /\ edits = 0
    /\ processed = [c \in Clients |-> {}]
    /\ ROOT = EmptyDict
    /\ INDEX_FILE = EmptyDict
    /\ files_log = 0
    /\ now = 1
    /\ last_req = NoPost
    /\ last_resp = NoResp
    /\ SYNC_DIR = [c \in Clients |-> EmptyDict]
    /\ STATE_FILE = [c \in Clients |-> {}]
    /\ so = [c \in Clients |-> SoIdle]
    /\ base_sync = [c \in Clients |-> EmptyDict]
    /\ LOCAL_FOLDER = EmptyDict
    /\ LOCAL_STATE = {}
    /\ sync_b = SyncBIdle
    /\ ROOT_mtime = EmptyDict

\* Every process has started; the polling server's main() reached the store.
Start == Stopped /\ main = MainServing /\ util = UtilIdle

Init == Start /\ limits = [edits |-> MaxEdits, events |-> MaxEvents]

\* ------------------------------------------------------------- environment
\* A user saves a file in a client's SYNC_DIR.
UserWrite(c, bytes) ==
    /\ edits < limits.edits
    /\ \E rel \in Paths :
          /\ Get(synced[c], rel) # bytes
          /\ synced' = [synced EXCEPT ![c] = Put(@, rel, bytes)]
    /\ edits' = edits + 1
    /\ UNCHANGED pollVars
    /\ UNCHANGED <<last_event_id, current_state, deleted_paths, pending_events,
                   fs_lock, known, wl, sl, processed, serverVars, limits>>

\* A user removes a file from a client's SYNC_DIR.
UserDelete(c) ==
    /\ edits < limits.edits
    /\ \E rel \in DOMAIN synced[c] :
          synced' = [synced EXCEPT ![c] = Pop(@, rel)]
    /\ edits' = edits + 1
    /\ UNCHANGED pollVars
    /\ UNCHANGED <<last_event_id, current_state, deleted_paths, pending_events,
                   fs_lock, known, wl, sl, processed, serverVars, limits>>

\* An operator saves a file in the server's STORAGE_DIR.
StorageWrite(bytes) ==
    /\ edits < limits.edits
    /\ \E rel \in Paths :
          /\ Get(storage, rel) # bytes
          /\ storage' = Put(storage, rel, bytes)
    /\ edits' = edits + 1
    /\ UNCHANGED pollVars
    /\ UNCHANGED <<clientVars, file_events, event_id_seq, txn,
                   recently_written_files, srv_known, ws, handler, limits>>

\* An operator removes a file from the server's STORAGE_DIR.
StorageDelete ==
    /\ edits < limits.edits
    /\ \E rel \in DOMAIN storage : storage' = Pop(storage, rel)
    /\ edits' = edits + 1
    /\ UNCHANGED pollVars
    /\ UNCHANGED <<clientVars, file_events, event_id_seq, txn,
                   recently_written_files, srv_known, ws, handler, limits>>

\* -------------------------------------------------- client: watch_local
\* The scan loop of one pass (lines 150-188) from the files still to visit,
\* up to the first file that needs an event (send_event blocks the pass) or
\* to the end of the walk.  dir, dp, kn, cs: SYNC_DIR, deleted_paths, known
\* and current_state of the client.
RECURSIVE WatchScan(_, _, _, _, _, _, _)
WatchScan(c, dir, dp, kn, cs, todo, current) ==
    IF todo = {}
    THEN [pc |-> "scanned", todo |-> {}, current |-> current, req |-> NoReq]
    ELSE LET rel == CHOOSE r \in todo : TRUE
             rest == todo \ {rel}
         IN  IF rel \in dp \/ rel \notin DOMAIN dir
             THEN WatchScan(c, dir, dp, kn, cs, rest, current)
             ELSE LET h == hash_file(dir[rel])
                      cur2 == Put(current, rel, h)
                  IN  IF Get(kn, rel) # h /\ Get(cs, rel) # h
                      THEN [pc |-> "send", todo |-> rest, current |-> cur2,
                            req |-> [client |-> c, path |-> rel, hash |-> h,
                                     deleted |-> FALSE,
                                     content |-> ReadText(dir[rel])]]
                      ELSE WatchScan(c, dir, dp, kn, cs, rest, cur2)

\* The deletion loop without the test of deleted_paths (line 194): a Deleted
\* event for every path of known that the scan did not find.
RECURSIVE WatchDeletes_Unchecked(_, _, _, _)
WatchDeletes_Unchecked(c, dp, todo, current) ==
    IF todo = {}
    THEN [pc |-> "end", todo |-> {}, current |-> current, req |-> NoReq]
    ELSE LET rel == CHOOSE r \in todo : TRUE
             rest == todo \ {rel}
         IN  IF rel \notin DOMAIN current
             THEN [pc |-> "send", todo |-> rest, current |-> current,
                   req |-> [client |-> c, path |-> rel, hash |-> None,
                            deleted |-> TRUE, content |-> None]]
             ELSE WatchDeletes_Unchecked(c, dp, rest, current)

\* The deletion loop of one pass (lines 191-197) from the paths of known still
\* to visit, up to the first one that needs a Deleted event or to the end.
RECURSIVE WatchDeletes(_, _, _, _)
WatchDeletes(c, dp, todo, current) ==
    IF todo = {}
    THEN [pc |-> "end", todo |-> {}, current |-> current, req |-> NoReq]
    ELSE LET rel == CHOOSE r \in todo : TRUE
             rest == todo \ {rel}
         IN  IF rel \notin DOMAIN current /\ rel \notin dp
             THEN [pc |-> "send", todo |-> rest, current |-> current,
                   req |-> [client |-> c, path |-> rel, hash |-> None,
                            deleted |-> TRUE, content |-> None]]
             ELSE WatchDeletes(c, dp, rest, current)

\* One pass continued from the scan loop: the scan loop, then the deletion
\* loop over the keys of known.
WatchFromScan(c, dir, dp, kn, cs, todo, current) ==
    LET s == WatchScan(c, dir, dp, kn, cs, todo, current)
    IN  IF s.pc = "send" THEN s
        ELSE WatchDeletes(c, dp, DOMAIN kn, s.current)

\* "with fs_lock" entered without waiting for the lock.
fs_lock_free_Always(c) == TRUE

\* "with fs_lock" (line 76 in sync_loop, line 144 in watch_local) is entered
\* only when no thread of client c holds the lock.
fs_lock_free(c) == fs_lock[c] = "free"

\* The pass reaches line 199 (known = current) and leaves fs_lock, or blocks
\* in send_event with the request on its way to the server.
WatchSettle(c, p, kn) ==
    IF p.pc = "end"
    THEN /\ known' = [known EXCEPT ![c] = p.current]
         /\ wl' = [wl EXCEPT ![c] = WlIdle]
         /\ fs_lock' = [fs_lock EXCEPT ![c] = "free"]
    ELSE /\ known' = [known EXCEPT ![c] = kn]
         /\ wl' = [wl EXCEPT ![c] = p]
         /\ fs_lock' = [fs_lock EXCEPT ![c] = "watch"]

\* watch_local takes fs_lock and walks SYNC_DIR.
WatchLocal(c) ==
    /\ wl[c].pc = "idle"
    /\ fs_lock_free(c)
    /\ WatchSettle(c, WatchFromScan(c, synced[c], deleted_paths[c], known[c],
                                    current_state[c], DOMAIN synced[c], EmptyDict),
                   known[c])
    /\ UNCHANGED pollVars
    /\ UNCHANGED <<synced, last_event_id, current_state, deleted_paths,
                   pending_events, sl, processed, serverVars, envVars>>

\* send_event returned (lines 39-51 after the POST, then lines 183-184 or
\* 196-197 of watch_local), and the pass goes on.
WatchSent(c) ==
    /\ wl[c].pc = "resp"
    /\ LET req == wl[c].req
           key == <<req.path, req.hash, req.deleted>>
       IN  /\ pending_events' = [pending_events EXCEPT ![c] = @ \cup {key}]
           /\ IF req.deleted
              THEN /\ deleted_paths' = [deleted_paths EXCEPT ![c] = @ \cup {req.path}]
                   /\ current_state' = [current_state EXCEPT ![c] = Pop(@, req.path)]
                   /\ WatchSettle(c, WatchDeletes(c, deleted_paths'[c], wl[c].todo,
                                                  wl[c].current),
                                  known[c])
              ELSE /\ deleted_paths' = deleted_paths
                   /\ current_state' = [current_state EXCEPT ![c] = Put(@, req.path, req.hash)]
                   /\ WatchSettle(c, WatchFromScan(c, synced[c], deleted_paths[c],
                                                   Put(known[c], req.path, req.hash),
                                                   current_state'[c], wl[c].todo,
                                                   wl[c].current),
                                  Put(known[c], req.path, req.hash))
    /\ UNCHANGED pollVars
    /\ UNCHANGED <<synced, last_event_id, sl, processed, serverVars, envVars>>

\* requests.post of send_event fails before the server takes the request
\* (connection error or timeout): the except branch of lines 52-53 logs it,
\* send_event returns normally, nothing is added to pending_events, and
\* watch_local goes on with lines 183-184 or 196-197.
WatchSendFails(c) ==
    /\ wl[c].pc = "send"
    /\ LET req == wl[c].req
       IN  IF req.deleted
           THEN /\ deleted_paths' = [deleted_paths EXCEPT ![c] = @ \cup {req.path}]
                /\ current_state' = [current_state EXCEPT ![c] = Pop(@, req.path)]
                /\ WatchSettle(c, WatchDeletes(c, deleted_paths'[c], wl[c].todo,
                                               wl[c].current),
                               known[c])
           ELSE /\ deleted_paths' = deleted_paths
                /\ current_state' = [current_state EXCEPT ![c] = Put(@, req.path, req.hash)]
                /\ WatchSettle(c, WatchFromScan(c, synced[c], deleted_paths[c],
                                                Put(known[c], req.path, req.hash),
                                                current_state'[c], wl[c].todo,
                                                wl[c].current),
                               Put(known[c], req.path, req.hash))
    /\ UNCHANGED pollVars
    /\ UNCHANGED <<synced, last_event_id, pending_events, sl, processed,
                   serverVars, envVars>>

\* The timer thread of send_event (lines 46-49): five seconds after the
\* send, the entry leaves pending_events.
RemovePending(c) ==
    /\ \E key \in pending_events[c] :
          pending_events' = [pending_events EXCEPT ![c] = @ \ {key}]
    /\ UNCHANGED pollVars
    /\ UNCHANGED <<synced, last_event_id, current_state, deleted_paths,
                   fs_lock, known, wl, sl, processed, serverVars, envVars>>

\* ----------------------------------------------------- server: the table
\* INSERT INTO file_events ... RETURNING event_id: the SERIAL column takes
\* nextval of its sequence when the row is inserted, not when it is committed.
NewRow(id, req) ==
    [event_id |-> id, path |-> req.path, hash |-> req.hash,
     deleted |-> req.deleted, content |-> req.content, client |-> req.client]

\* event_id SERIAL PRIMARY KEY (init_database): nextval of the sequence, which
\* never hands out a value twice and is not rolled back.
nextval_of_committed ==
    1 + (IF file_events = {} THEN 0
         ELSE (CHOOSE r \in file_events :
                  \A q \in file_events : q.event_id <= r.event_id).event_id)

nextval == event_id_seq + 1

\* WHERE event_id > since_event_id
after_or_at(event_id, since_event_id) == event_id >= since_event_id

after(event_id, since_event_id) == event_id > since_event_id

\* SELECT ... FROM rows WHERE event_id > since ORDER BY event_id ASC
RECURSIVE OrderByEventId(_)
OrderByEventId(rows) ==
    IF rows = {} THEN <<>>
    ELSE LET first == CHOOSE r \in rows : \A q \in rows : r.event_id <= q.event_id
         IN  <<first>> \o OrderByEventId(rows \ {first})

get_events(since_event_id) ==
    OrderByEventId({r \in file_events : after(r.event_id, since_event_id)})

\* --------------------------------------------------- client: sync_loop
\* GET /sync?since_id=last_event_id (lines 64-70), answered by do_GET on the
\* server's only thread.  An empty answer leaves the client as it was.
SyncGet(c) ==
    /\ sl[c].pc = "idle"
    /\ handler.pc = "idle"
    /\ get_events(last_event_id[c]) # <<>>
    /\ sl' = [sl EXCEPT ![c] = [pc |-> "got", events |-> get_events(last_event_id[c])]]
    /\ UNCHANGED pollVars
    /\ UNCHANGED <<synced, last_event_id, current_state, deleted_paths,
                   pending_events, fs_lock, known, wl, processed, serverVars,
                   envVars>>

Max(a, b) == IF a >= b THEN a ELSE b

\* The for loop's body without its two skips (lines 86-92 and 108-112).
ApplyKind_NoSkip(c, e, cs, pend) ==
    IF e.deleted THEN "delete" ELSE "write"

\* The for loop's body without the skip of an unchanged file (lines 108-112).
ApplyKind_NoSame(c, e, cs, pend) ==
    IF e.client = c /\ <<e.path, e.hash, e.deleted>> \in pend THEN "skip_own"
    ELSE IF e.deleted THEN "delete"
    ELSE "write"

\* Which branch of the for loop's body (lines 78-131) event e takes on client
\* c: "skip_own" (lines 86-92), "delete" (97-103), "skip_same" (108-112) or
\* "write" (114-125).  cs, pend: current_state and pending_events.
ApplyKind(c, e, cs, pend) ==
    IF e.client = c /\ <<e.path, e.hash, e.deleted>> \in pend THEN "skip_own"
    ELSE IF e.deleted THEN "delete"
    ELSE IF Get(cs, e.path) = e.hash THEN "skip_same"
    ELSE "write"

\* The body of the for loop with a Deleted event that is recorded in
\* deleted_paths and current_state but leaves the file (no lines 101-102).
ApplyEvent_KeepFile(c, e, st, pend) ==
    LET kind == ApplyKind(c, e, st.current_state, pend)
    IN  [kind |-> kind,
         fs_op |-> IF kind = "write" THEN "write" ELSE "none",
         synced |-> IF kind = "write"
                    THEN Put(st.synced, e.path, WriteText(e.content))
                    ELSE st.synced,
         current_state |-> IF kind = "delete" THEN Pop(st.current_state, e.path)
                           ELSE IF kind = "write"
                                THEN Put(st.current_state, e.path, e.hash)
                           ELSE st.current_state,
         deleted_paths |-> IF kind = "delete" THEN st.deleted_paths \cup {e.path}
                           ELSE IF kind = "write" THEN st.deleted_paths \ {e.path}
                           ELSE st.deleted_paths,
         last_event_id |-> Max(st.last_event_id, e.event_id)]

\* The body of the for loop with os.remove called without the os.path.exists
\* test of line 101: on a Deleted event for a file that is not there it
\* raises after lines 98-99, and the except branch leaves the cursor.
ApplyEvent_RemoveUnchecked(c, e, st, pend) ==
    LET kind == ApplyKind(c, e, st.current_state, pend)
        raised == kind = "delete" /\ e.path \notin DOMAIN st.synced
    IN  [kind |-> kind,
         fs_op |-> IF raised THEN "error"
                   ELSE IF kind = "delete" THEN "remove"
                   ELSE IF kind = "write" THEN "write"
                   ELSE "none",
         synced |-> IF kind = "delete" THEN Pop(st.synced, e.path)
                    ELSE IF kind = "write"
                         THEN Put(st.synced, e.path, WriteText(e.content))
                    ELSE st.synced,
         current_state |-> IF kind = "delete" THEN Pop(st.current_state, e.path)
                           ELSE IF kind = "write"
                                THEN Put(st.current_state, e.path, e.hash)
                           ELSE st.current_state,
         deleted_paths |-> IF kind = "delete" THEN st.deleted_paths \cup {e.path}
                           ELSE IF kind = "write" THEN st.deleted_paths \ {e.path}
                           ELSE st.deleted_paths,
         last_event_id |-> IF raised THEN st.last_event_id
                           ELSE Max(st.last_event_id, e.event_id)]

\* The body of the for loop on one event: the client's state after it, and
\* what it did to the directory (fs_op: "remove", "write" or "none").
\* st: [synced, current_state, deleted_paths, last_event_id] of the client.
ApplyEvent(c, e, st, pend) ==
    LET kind == ApplyKind(c, e, st.current_state, pend)
    IN  [kind |-> kind,
         fs_op |-> IF kind = "delete" /\ e.path \in DOMAIN st.synced THEN "remove"
                   ELSE IF kind = "write" THEN "write"
                   ELSE "none",
         synced |-> IF kind = "delete" THEN Pop(st.synced, e.path)
                    ELSE IF kind = "write"
                         THEN Put(st.synced, e.path, WriteText(e.content))
                    ELSE st.synced,
         current_state |-> IF kind = "delete" THEN Pop(st.current_state, e.path)
                           ELSE IF kind = "write"
                                THEN Put(st.current_state, e.path, e.hash)
                           ELSE st.current_state,
         deleted_paths |-> IF kind = "delete" THEN st.deleted_paths \cup {e.path}
                           ELSE IF kind = "write" THEN st.deleted_paths \ {e.path}
                           ELSE st.deleted_paths,
         last_event_id |-> Max(st.last_event_id, e.event_id)]

\* The state of client c that the for loop reads and writes.
ClientState(c) ==
    [synced |-> synced[c], current_state |-> current_state[c],
     deleted_paths |-> deleted_paths[c], last_event_id |-> last_event_id[c]]

\* sync_loop applies the next event of the batch, under fs_lock from the
\* first event of the batch to the last.
SyncApply(c) ==
    /\ \/ sl[c].pc = "got" /\ fs_lock_free(c)
       \/ sl[c].pc = "apply"
    /\ LET e == Head(sl[c].events)
           rest == Tail(sl[c].events)
           r == ApplyEvent(c, e, ClientState(c), pending_events[c])
       IN  /\ last_event_id' = [last_event_id EXCEPT ![c] = r.last_event_id]
           /\ deleted_paths' = [deleted_paths EXCEPT ![c] = r.deleted_paths]
           /\ current_state' = [current_state EXCEPT ![c] = r.current_state]
           /\ synced' = [synced EXCEPT ![c] = r.synced]
           /\ processed' = [processed EXCEPT ![c] = @ \cup {e.event_id}]
           /\ IF rest = <<>>
              THEN /\ sl' = [sl EXCEPT ![c] = SlIdle]
                   /\ fs_lock' = [fs_lock EXCEPT ![c] = "free"]
              ELSE /\ sl' = [sl EXCEPT ![c] = [pc |-> "apply", events |-> rest]]
                   /\ fs_lock' = [fs_lock EXCEPT ![c] = "sync"]
    /\ UNCHANGED pollVars
    /\ UNCHANGED <<pending_events, known, wl, serverVars, envVars>>

\* The body of the for loop on an event whose file operation raises
\* (os.makedirs / open / write at lines 117-122, os.remove at line 102): the
\* lines before it have run (98-99 or 114-115), the file is as it was, the
\* except branch of lines 128-131 logs the failure, and line 127
\* (last_event_id = max(...)) is not reached.
ApplyEventFails(c, e, st, pend) ==
    LET kind == ApplyKind(c, e, st.current_state, pend)
    IN  [kind |-> kind,
         fs_op |-> "error",
         synced |-> st.synced,
         current_state |-> IF kind = "delete" THEN Pop(st.current_state, e.path)
                           ELSE Put(st.current_state, e.path, e.hash),
         deleted_paths |-> IF kind = "delete" THEN st.deleted_paths \cup {e.path}
                           ELSE st.deleted_paths \ {e.path},
         last_event_id |-> st.last_event_id]

\* sync_loop takes the next event of the batch and its file operation
\* raises; the for loop goes on with the rest of the batch.
SyncApplyFails(c) ==
    /\ \/ sl[c].pc = "got" /\ fs_lock_free(c)
       \/ sl[c].pc = "apply"
    /\ LET e == Head(sl[c].events)
           rest == Tail(sl[c].events)
           kind == ApplyKind(c, e, current_state[c], pending_events[c])
           r == ApplyEventFails(c, e, ClientState(c), pending_events[c])
       IN  /\ \/ kind = "write"
              \/ kind = "delete" /\ e.path \in DOMAIN synced[c]
           /\ last_event_id' = [last_event_id EXCEPT ![c] = r.last_event_id]
           /\ deleted_paths' = [deleted_paths EXCEPT ![c] = r.deleted_paths]
           /\ current_state' = [current_state EXCEPT ![c] = r.current_state]
           /\ IF rest = <<>>
              THEN /\ sl' = [sl EXCEPT ![c] = SlIdle]
                   /\ fs_lock' = [fs_lock EXCEPT ![c] = "free"]
              ELSE /\ sl' = [sl EXCEPT ![c] = [pc |-> "apply", events |-> rest]]
                   /\ fs_lock' = [fs_lock EXCEPT ![c] = "sync"]
    /\ UNCHANGED pollVars
    /\ UNCHANGED <<synced, processed, pending_events, known, wl, serverVars,
                   envVars>>

\* A test harness hands sync_loop one batch of events of the log, in any
\* order and with repeats, instead of the answer of GET /sync.
HandBatch(c) ==
    /\ sl[c].pc = "idle"
    /\ processed[c] = {}
    /\ \E n \in 1..MaxBatch : \E batch \in [1..n -> file_events] :
          sl' = [sl EXCEPT ![c] = [pc |-> "got", events |-> batch]]
    /\ UNCHANGED pollVars
    /\ UNCHANGED <<synced, last_event_id, current_state, deleted_paths,
                   pending_events, fs_lock, known, wl, processed, serverVars,
                   envVars>>

\* ------------------------------------------- server: POST /event handler
\* do_POST takes the request of a client blocked in send_event and calls
\* save_event: the row is inserted and committed (lines 87-114).  The
\* handler thread serves one request at a time, so no GET /sync can see the
\* row between its insert and its commit; the two are one step.
HandlerPost(c) ==
    /\ handler.pc = "idle"
    /\ wl[c].pc = "send"
    /\ event_id_seq < limits.events
    /\ event_id_seq' = nextval
    /\ file_events' = file_events \cup {NewRow(nextval, wl[c].req)}
    /\ handler' = [pc |-> "mirror", client |-> c]
    /\ wl' = [wl EXCEPT ![c].pc = "wait"]
    /\ UNCHANGED pollVars
    /\ UNCHANGED <<synced, last_event_id, current_state, deleted_paths,
                   pending_events, fs_lock, known, sl, processed, storage, txn,
                   recently_written_files, srv_known, ws, envVars>>

\* save_event mirrors the event into STORAGE_DIR (lines 117-121):
\* delete_file_from_storage, or the file write of write_file_to_storage
\* (lines 48-51).  A deletion is answered at once.
HandlerMirror ==
    /\ handler.pc = "mirror"
    /\ LET req == wl[handler.client].req
       IN  IF req.client = SERVER \/ (~req.deleted /\ req.content = None)
           THEN /\ storage' = storage
                /\ handler' = HandlerIdle
                /\ wl' = [wl EXCEPT ![handler.client].pc = "resp"]
           ELSE IF req.deleted
           THEN /\ storage' = Pop(storage, req.path)
                /\ handler' = HandlerIdle
                /\ wl' = [wl EXCEPT ![handler.client].pc = "resp"]
           ELSE /\ storage' = Put(storage, req.path, WriteText(req.content))
                /\ handler' = [handler EXCEPT !.pc = "track"]
                /\ wl' = wl
    /\ UNCHANGED pollVars
    /\ UNCHANGED <<synced, last_event_id, current_state, deleted_paths,
                   pending_events, fs_lock, known, sl, processed, file_events,
                   event_id_seq, txn, recently_written_files, srv_known, ws,
                   envVars>>

\* write_file_to_storage records the digest of what it wrote (lines 54-55);
\* save_event returns and do_POST answers 200.
HandlerTrack ==
    /\ handler.pc = "track"
    /\ LET req == wl[handler.client].req
       IN  recently_written_files' =
               Put(recently_written_files, req.path, hash_text(req.content))
    /\ handler' = HandlerIdle
    /\ wl' = [wl EXCEPT ![handler.client].pc = "resp"]
    /\ UNCHANGED pollVars
    /\ UNCHANGED <<synced, last_event_id, current_state, deleted_paths,
                   pending_events, fs_lock, known, sl, processed, storage,
                   file_events, event_id_seq, txn, srv_known, ws, envVars>>

\* ------------------------------------------------ server: watch_storage
\* The walk of one pass (lines 192-207) from the files still to visit, up to
\* the first file that is new or changed against known, or to the end.
RECURSIVE StorageWalk(_, _, _, _)
StorageWalk(dir, kn, todo, current) ==
    IF todo = {}
    THEN [pc |-> "walked", todo |-> {}, current |-> current, rel |-> None, h |-> None]
    ELSE LET rel == CHOOSE r \in todo : TRUE
             rest == todo \ {rel}
         IN  IF rel \notin DOMAIN dir
             THEN StorageWalk(dir, kn, rest, current)
             ELSE LET h == hash_file(dir[rel])
                      cur2 == Put(current, rel, h)
                  IN  IF Get(kn, rel) # h
                      THEN [pc |-> "decide", todo |-> rest, current |-> cur2,
                            rel |-> rel, h |-> h]
                      ELSE StorageWalk(dir, kn, rest, cur2)

\* The deletion loop (lines 231-232) from the paths of known still to visit,
\* up to the first one missing from the walk, or to the end.
StorageDeletes(todo, current) ==
    LET gone == {rel \in todo : rel \notin DOMAIN current}
    IN  IF gone = {}
        THEN [pc |-> "end", todo |-> {}, current |-> current, rel |-> None, h |-> None]
        ELSE LET rel == CHOOSE r \in gone : TRUE
             IN  [pc |-> "del", todo |-> gone \ {rel}, current |-> current,
                  rel |-> rel, h |-> None]

StorageFromWalk(dir, kn, todo, current) ==
    LET s == StorageWalk(dir, kn, todo, current)
    IN  IF s.pc = "decide" THEN s ELSE StorageDeletes(DOMAIN kn, s.current)

\* The pass reaches line 244 (known = current), or stops at a step that
\* reads what the handler thread writes.
StorageSettle(p, kn) ==
    IF p.pc = "end"
    THEN srv_known' = p.current /\ ws' = WsIdle
    ELSE srv_known' = kn /\ ws' = p

\* watch_storage starts a pass and hashes the files of STORAGE_DIR.
WatchStorage ==
    /\ ws.pc = "idle"
    /\ StorageSettle(StorageFromWalk(storage, srv_known, DOMAIN storage, EmptyDict),
                     srv_known)
    /\ UNCHANGED pollVars
    /\ UNCHANGED <<clientVars, storage, file_events, event_id_seq, txn,
                   recently_written_files, handler, envVars>>

\* Lines 209-225: a file the handler has just written is skipped once; any
\* other new or changed file is read and inserted as an event of SERVER.
WatchStorageDecide ==
    /\ ws.pc = "decide"
    /\ IF Get(recently_written_files, ws.rel) = ws.h
       THEN /\ recently_written_files' = Pop(recently_written_files, ws.rel)
            /\ StorageSettle(StorageFromWalk(storage, Put(srv_known, ws.rel, ws.h),
                                             ws.todo, ws.current),
                             Put(srv_known, ws.rel, ws.h))
            /\ UNCHANGED <<txn, event_id_seq>>
       ELSE IF ws.rel \notin DOMAIN storage
       THEN /\ StorageSettle(StorageFromWalk(storage, srv_known, ws.todo, ws.current),
                             srv_known)
            /\ UNCHANGED <<txn, event_id_seq, recently_written_files>>
       ELSE /\ event_id_seq < limits.events
            /\ event_id_seq' = nextval
            /\ txn' = {NewRow(nextval,
                              [client |-> SERVER, path |-> ws.rel, hash |-> ws.h,
                               deleted |-> FALSE,
                               content |-> ReadText(storage[ws.rel])])}
            /\ ws' = [ws EXCEPT !.pc = "commit"]
            /\ UNCHANGED <<srv_known, recently_written_files>>
    /\ UNCHANGED pollVars
    /\ UNCHANGED <<clientVars, storage, file_events, handler, envVars>>

\* Lines 233-241: a path of known that the walk did not find is inserted as a
\* Deleted event of SERVER unless it is in _recently_written_files.
WatchStorageDelete ==
    /\ ws.pc = "del"
    /\ IF ws.rel \in DOMAIN recently_written_files
       THEN /\ StorageSettle(StorageDeletes(ws.todo, ws.current), srv_known)
            /\ UNCHANGED <<txn, event_id_seq>>
       ELSE /\ event_id_seq < limits.events
            /\ event_id_seq' = nextval
            /\ txn' = {NewRow(nextval,
                              [client |-> SERVER, path |-> ws.rel, hash |-> None,
                               deleted |-> TRUE, content |-> None])}
            /\ ws' = [ws EXCEPT !.pc = "commit_del"]
            /\ UNCHANGED srv_known
    /\ UNCHANGED pollVars
    /\ UNCHANGED <<clientVars, storage, file_events, recently_written_files,
                   handler, envVars>>

\* conn.commit() of save_event called by watch_storage (line 113): the row
\* becomes visible to get_events; client is SERVER, so nothing is mirrored.
WatchStorageCommit ==
    /\ ws.pc \in {"commit", "commit_del"}
    /\ file_events' = file_events \cup txn
    /\ txn' = {}
    /\ IF ws.pc = "commit"
       THEN StorageSettle(StorageFromWalk(storage, srv_known, ws.todo, ws.current),
                          srv_known)
       ELSE StorageSettle(StorageDeletes(ws.todo, ws.current), srv_known)
    /\ UNCHANGED pollVars
    /\ UNCHANGED <<clientVars, storage, event_id_seq, recently_written_files,
                   handler, envVars>>

\* ============================================================ polling variant
\* ------------------------------------------------- polling server: helpers
\* sha256_of_file / hashlib.sha256(data).hexdigest(): the files are read and
\* written in binary mode, so the digest is of the bytes that are stored.
sha256_of_file(bytes) == "sha256:" \o bytes

\* refresh_index_from_disk(idx) over the files of ROOT (lines 105-120): a
\* file without an entry gets one at version 1, a file whose digest differs
\* gets the new sha at the version it had; an entry whose file is gone stays.
refresh_index_from_disk(idx, disk) ==
    [rel \in (DOMAIN idx) \cup (DOMAIN disk) |->
        IF rel \notin DOMAIN disk THEN idx[rel]
        ELSE IF rel \notin DOMAIN idx
             THEN [sha |-> sha256_of_file(disk[rel]), version |-> 1]
        ELSE [sha |-> sha256_of_file(disk[rel]), version |-> idx[rel].version]]

\* The test of line 202: the path has an index entry, the request declares
\* a base_sha, and the entry's sha is not that base_sha.
is_conflict(idx, rel, base_sha) ==
    /\ rel \in DOMAIN idx
    /\ idx[rel].sha # base_sha
    /\ base_sha # None

\* Lines 203-204: base, ext = os.path.splitext(rel);
\* f"{base} (conflict @{int(time.time())}){ext}"
conflict_rel(rel, t) ==
    [stem |-> rel.stem \o " (conflict @" \o ToString(t) \o ")", ext |-> rel.ext]

\* POST /upload without the lines 203-207 that store the conflict copy.
upload_NoCopy(idx, disk, rel, base_sha, data, t) ==
    LET sha == sha256_of_file(data)
        ver == IF rel \in DOMAIN idx THEN idx[rel].version + 1 ELSE 1
    IN  [ROOT |-> Put(disk, rel, data),
         INDEX_FILE |-> Put(idx, rel, [sha |-> sha, version |-> ver]),
         resp |-> [code |-> 200, ok |-> TRUE, version |-> ver, sha |-> sha]]

\* POST /upload (lines 191-220) on index idx and storage disk at second t:
\* the storage and the index after it, and the response.
upload(idx, disk, rel, base_sha, data, t) ==
    LET disk1 == IF is_conflict(idx, rel, base_sha)
                 THEN Put(disk, conflict_rel(rel, t), data)
                 ELSE disk
        sha == sha256_of_file(data)
        ver == IF rel \in DOMAIN idx THEN idx[rel].version + 1 ELSE 1
    IN  [ROOT |-> Put(disk1, rel, data),
         INDEX_FILE |-> Put(idx, rel, [sha |-> sha, version |-> ver]),
         resp |-> [code |-> 200, ok |-> TRUE, version |-> ver, sha |-> sha]]

\* POST /delete (lines 222-237).
delete(idx, disk, rel) ==
    [ROOT |-> Pop(disk, rel),
     INDEX_FILE |-> Pop(idx, rel),
     resp |-> [code |-> 200, ok |-> TRUE, version |-> 0, sha |-> None]]

\* ------------------------------------------------- polling client: helpers
\* local_index() (lines 22-35): path -> sha of every file of the folder.
local_index(dir) == [rel \in DOMAIN dir |-> sha256_of_file(dir[rel])]

\* The deletions of one pass computed from every server path that is not in
\* the folder, without the state file.
to_delete_NoState(prev, curr, sidx) == (DOMAIN sidx) \ curr

\* Lines 98-102: the paths of the state file that are no longer in the
\* folder, of which those in the server's index are deleted on the server.
to_delete(prev, curr, sidx) == {path \in prev \ curr : path \in DOMAIN sidx}

\* Lines 112-114: the paths of the local index that the server's index
\* lacks or has with another sha.
to_upload(lidx, sidx) ==
    {path \in DOMAIN lidx : path \notin DOMAIN sidx \/ sidx[path].sha # lidx[path]}

\* Line 121: need = not os.path.exists(fp) or sha256_of_file(fp) != meta["sha"]
need(dir, path, meta) ==
    path \notin DOMAIN dir \/ sha256_of_file(dir[path]) # meta.sha

\* ------------------------------------------------ polling: environment
\* A user saves a file in the folder of client c.
LocalWrite(c, bytes) ==
    /\ edits < limits.edits
    /\ \E rel \in RelPaths :
          /\ (rel \in DOMAIN SYNC_DIR[c] => SYNC_DIR[c][rel] # bytes)
          /\ SYNC_DIR' = [SYNC_DIR EXCEPT ![c] = Put(@, rel, bytes)]
    /\ edits' = edits + 1
    /\ UNCHANGED <<clientBVars, main, util, ROOT, INDEX_FILE, files_log, now, last_req, last_resp,
                   STATE_FILE, so, base_sync, limits, clientVars, serverVars>>

\* A user removes a file from the folder of client c.
LocalDelete(c) ==
    /\ edits < limits.edits
    /\ \E rel \in DOMAIN SYNC_DIR[c] :
          SYNC_DIR' = [SYNC_DIR EXCEPT ![c] = Pop(@, rel)]
    /\ edits' = edits + 1
    /\ UNCHANGED <<clientBVars, main, util, ROOT, INDEX_FILE, files_log, now, last_req, last_resp,
                   STATE_FILE, so, base_sync, limits, clientVars, serverVars>>

\* An operator saves a file in the server's storage folder.
RootWrite(bytes) ==
    /\ edits < limits.edits
    /\ \E rel \in RelPaths :
          /\ (rel \in DOMAIN ROOT => ROOT[rel] # bytes)
          /\ ROOT' = Put(ROOT, rel, bytes)
    /\ edits' = edits + 1
    /\ UNCHANGED <<clientBVars, main, util, INDEX_FILE, files_log, now, last_req, last_resp, SYNC_DIR,
                   STATE_FILE, so, base_sync, limits, clientVars, serverVars>>

\* An operator removes a file from the server's storage folder.
RootDelete ==
    /\ edits < limits.edits
    /\ \E rel \in DOMAIN ROOT : ROOT' = Pop(ROOT, rel)
    /\ edits' = edits + 1
    /\ UNCHANGED <<clientBVars, main, util, INDEX_FILE, files_log, now, last_req, last_resp, SYNC_DIR,
                   STATE_FILE, so, base_sync, limits, clientVars, serverVars>>

\* The server's clock reaches the next second.
Tick ==
    /\ now < MaxTime
    /\ now' = now + 1
    /\ UNCHANGED <<clientBVars, main, util, ROOT, INDEX_FILE, files_log, last_req, last_resp, SYNC_DIR,
                   STATE_FILE, so, base_sync, envVars, clientVars, serverVars>>

\* ------------------------------------- polling server: requests of any client
\* GET /index (lines 141-145): the index is refreshed from the disk, saved
\* and sent.
GetIndex ==
    /\ main.pc = "serving"
    /\ INDEX_FILE' = refresh_index_from_disk(INDEX_FILE, ROOT)
    /\ INDEX_FILE' # INDEX_FILE
    /\ UNCHANGED <<clientBVars, main, util, ROOT, files_log, now, last_req, last_resp, SYNC_DIR,
                   STATE_FILE, so, base_sync, envVars, clientVars, serverVars>>

\* The handler takes POST /upload with any path, base_sha and body.
PostUpload(rel, base_sha, data) ==
    /\ main.pc = "serving"
    /\ files_log < limits.events
    /\ LET r == upload(INDEX_FILE, ROOT, rel, base_sha, data, now)
       IN  /\ ROOT' = r.ROOT
           /\ INDEX_FILE' = r.INDEX_FILE
           /\ last_resp' = r.resp
    /\ last_req' = [kind |-> "upload", client |-> None, path |-> rel,
                    base_sha |-> base_sha, data |-> data]
    /\ files_log' = files_log + 1
    /\ UNCHANGED <<clientBVars, main, util, now, SYNC_DIR, STATE_FILE, so, base_sync, envVars,
                   clientVars, serverVars>>

\* The handler takes POST /delete with any path.
PostDelete(rel) ==
    /\ main.pc = "serving"
    /\ files_log < limits.events
    /\ LET r == delete(INDEX_FILE, ROOT, rel)
       IN  /\ ROOT' = r.ROOT
           /\ INDEX_FILE' = r.INDEX_FILE
           /\ last_resp' = r.resp
    /\ last_req' = [kind |-> "delete", client |-> None, path |-> rel,
                    base_sha |-> None, data |-> None]
    /\ files_log' = files_log + 1
    /\ UNCHANGED <<clientBVars, main, util, now, SYNC_DIR, STATE_FILE, so, base_sync, envVars,
                   clientVars, serverVars>>

\* ------------------------------------------------ polling client: sync_once
\* Each step is one request, handled by the server's only thread, with the
\* local work of the client up to its next request.

\* Lines 94-100: GET /index, local_index(), and the paths to delete on the
\* server.
SyncOnceStart(c) ==
    /\ so[c].pc = "idle"
    /\ LET sidx == refresh_index_from_disk(INDEX_FILE, ROOT)
           lidx == local_index(SYNC_DIR[c])
       IN  /\ INDEX_FILE' = sidx
           /\ so' = [so EXCEPT ![c] =
                        [pc |-> "delete", sidx |-> sidx, lidx |-> lidx,
                         todo |-> to_delete(STATE_FILE[c], DOMAIN lidx, sidx)]]
    /\ UNCHANGED <<clientBVars, main, util, ROOT, files_log, now, last_req, last_resp, SYNC_DIR,
                   STATE_FILE, base_sync, envVars, clientVars, serverVars>>

\* Lines 101-106: delete_on_server(path) for the next path to delete.
SyncOnceDelete(c) ==
    /\ so[c].pc = "delete"
    /\ files_log < limits.events
    /\ \E path \in so[c].todo :
          /\ LET r == delete(INDEX_FILE, ROOT, path)
             IN  /\ ROOT' = r.ROOT
                 /\ INDEX_FILE' = r.INDEX_FILE
                 /\ last_resp' = r.resp
          /\ last_req' = [kind |-> "delete", client |-> c, path |-> path,
                          base_sha |-> None, data |-> None]
          /\ so' = [so EXCEPT ![c].todo = @ \ {path}]
          /\ base_sync' = [base_sync EXCEPT ![c] = Pop(@, path)]
    /\ files_log' = files_log + 1
    /\ UNCHANGED <<clientBVars, main, util, now, SYNC_DIR, STATE_FILE, envVars, clientVars, serverVars>>

\* Lines 109-114: the indexes are read again and the paths to upload follow.
SyncOnceRefresh(c) ==
    /\ so[c].pc = "delete"
    /\ so[c].todo = {}
    /\ LET sidx == refresh_index_from_disk(INDEX_FILE, ROOT)
           lidx == local_index(SYNC_DIR[c])
       IN  /\ INDEX_FILE' = sidx
           /\ so' = [so EXCEPT ![c] =
                        [pc |-> "upload", sidx |-> sidx, lidx |-> lidx,
                         todo |-> to_upload(lidx, sidx)]]
    /\ UNCHANGED <<clientBVars, main, util, ROOT, files_log, now, last_req, last_resp, SYNC_DIR,
                   STATE_FILE, base_sync, envVars, clientVars, serverVars>>

\* Line 115: upload_file(path, base_sha) for the next path to upload, with
\* the bytes the file holds now and the sha of the server's index as read in
\* line 109 as base_sha.  A file that is gone by now makes open() raise, and
\* main() ends the pass (lines 133-136).
SyncOnceUpload(c) ==
    /\ so[c].pc = "upload"
    /\ \E path \in so[c].todo :
          IF path \notin DOMAIN SYNC_DIR[c]
          THEN /\ so' = [so EXCEPT ![c] = SoIdle]
               /\ UNCHANGED <<clientBVars, main, util, ROOT, INDEX_FILE, files_log, last_req, last_resp,
                              base_sync>>
          ELSE /\ files_log < limits.events
               /\ LET base_sha == IF path \in DOMAIN so[c].sidx
                                  THEN so[c].sidx[path].sha ELSE None
                      data == SYNC_DIR[c][path]
                      r == upload(INDEX_FILE, ROOT, path, base_sha, data, now)
                  IN  /\ ROOT' = r.ROOT
                      /\ INDEX_FILE' = r.INDEX_FILE
                      /\ last_resp' = r.resp
                      /\ last_req' = [kind |-> "upload", client |-> c,
                                      path |-> path, base_sha |-> base_sha,
                                      data |-> data]
                      /\ base_sync' = [base_sync EXCEPT ![c] =
                                          Put(@, path, sha256_of_file(data))]
               /\ files_log' = files_log + 1
               /\ so' = [so EXCEPT ![c].todo = @ \ {path}]
    /\ UNCHANGED <<clientBVars, main, util, now, SYNC_DIR, STATE_FILE, envVars, clientVars, serverVars>>

\* Line 118: the server's index is read a third time; its paths are the ones
\* the download loop visits.
SyncOnceIndex(c) ==
    /\ so[c].pc = "upload"
    /\ so[c].todo = {}
    /\ LET sidx == refresh_index_from_disk(INDEX_FILE, ROOT)
       IN  /\ INDEX_FILE' = sidx
           /\ so' = [so EXCEPT ![c] =
                        [pc |-> "download", sidx |-> sidx,
                         lidx |-> local_index(SYNC_DIR[c]),
                         todo |-> DOMAIN sidx]]
    /\ UNCHANGED <<clientBVars, main, util, ROOT, files_log, now, last_req, last_resp, SYNC_DIR,
                   STATE_FILE, base_sync, envVars, clientVars, serverVars>>

\* Lines 119-123: the next path of the server's index; when the file is
\* missing or differs, download_file(path) writes what GET /download sends.
\* The server answers 404 for a file that is not in ROOT, urlopen raises and
\* main() ends the pass.
SyncOnceDownload(c) ==
    /\ so[c].pc = "download"
    /\ \E path \in so[c].todo :
          IF ~need(SYNC_DIR[c], path, so[c].sidx[path])
          THEN /\ so' = [so EXCEPT ![c].todo = @ \ {path}]
               /\ SYNC_DIR' = SYNC_DIR
               /\ base_sync' = [base_sync EXCEPT ![c] =
                                   Put(@, path, so[c].sidx[path].sha)]
          ELSE IF path \notin DOMAIN ROOT
          THEN /\ so' = [so EXCEPT ![c] = SoIdle]
               /\ UNCHANGED <<clientBVars, main, util, SYNC_DIR, base_sync>>
          ELSE /\ so' = [so EXCEPT ![c].todo = @ \ {path}]
               /\ SYNC_DIR' = [SYNC_DIR EXCEPT ![c] = Put(@, path, ROOT[path])]
               /\ base_sync' = [base_sync EXCEPT ![c] =
                                   Put(@, path, sha256_of_file(ROOT[path]))]
    /\ UNCHANGED <<clientBVars, main, util, ROOT, INDEX_FILE, files_log, now, last_req, last_resp,
                   STATE_FILE, envVars, clientVars, serverVars>>

\* Line 126: save_state(list(local_index().keys())) ends the pass.
SyncOnceSave(c) ==
    /\ so[c].pc = "download"
    /\ so[c].todo = {}
    /\ STATE_FILE' = [STATE_FILE EXCEPT ![c] = DOMAIN local_index(SYNC_DIR[c])]
    /\ so' = [so EXCEPT ![c] = SoIdle]
    /\ UNCHANGED <<clientBVars, main, util, ROOT, INDEX_FILE, files_log, now, last_req, last_resp,
                   SYNC_DIR, base_sync, envVars, clientVars, serverVars>>

\* --------------------------------------------- polling server: start-up
\* get_db_connection(retries=10, delay=3): the number of connection attempts.
retries == 10

\* main() calls init_db() (line 248), whose get_db_connection connects at
\* this attempt (lines 36-41); init_db creates the table and returns, and
\* main goes on to serve_forever (line 256).
MainConnects ==
    /\ main.pc = "init_db"
    /\ main.attempt < retries
    /\ main' = [pc |-> "serving", attempt |-> main.attempt + 1, connected |-> TRUE]
    /\ UNCHANGED <<clientBVars, util, ROOT, INDEX_FILE, files_log, now, last_req, last_resp,
                   SYNC_DIR, STATE_FILE, so, base_sync, envVars, clientVars,
                   serverVars>>

\* psycopg2.connect raises OperationalError at this attempt (lines 42-44):
\* a warning, time.sleep(delay), and the next attempt; after the last one
\* get_db_connection raises RuntimeError (line 45), which init_db catches
\* and logs (lines 66-67), and main goes on to serve_forever (line 256).
MainConnectFails ==
    /\ main.pc = "init_db"
    /\ main.attempt < retries
    /\ main' = [pc |-> IF main.attempt + 1 = retries THEN "serving" ELSE "init_db",
                attempt |-> main.attempt + 1,
                connected |-> FALSE]
    /\ UNCHANGED <<clientBVars, util, ROOT, INDEX_FILE, files_log, now, last_req, last_resp,
                   SYNC_DIR, STATE_FILE, so, base_sync, envVars, clientVars,
                   serverVars>>

\* ------------------------------------------------------- specifications
Next ==
    \/ \E c \in Clients : \E bytes \in UserBytes : UserWrite(c, bytes)
    \/ \E c \in Clients : UserDelete(c)
    \/ \E bytes \in UserBytes : StorageWrite(bytes)
    \/ StorageDelete
    \/ \E c \in Clients : WatchLocal(c)
    \/ \E c \in Clients : WatchSent(c)
    \/ \E c \in Clients : RemovePending(c)
    \/ \E c \in Clients : SyncGet(c)
    \/ \E c \in Clients : SyncApply(c)
    \/ \E c \in Clients : HandlerPost(c)
    \/ HandlerMirror
    \/ HandlerTrack
    \/ WatchStorage
    \/ WatchStorageDecide
    \/ WatchStorageDelete
    \/ WatchStorageCommit

Spec == Init /\ [][Next]_vars

\* Runs with one user edit, the creation of a file, and room for every event
\* that follows from it.
InitOne == Start /\ limits = [edits |-> 1, events |-> MaxEventsOne]

NextOne ==
    \/ \E c \in Clients : \E bytes \in UserBytes : UserWrite(c, bytes)
    \/ \E bytes \in UserBytes : StorageWrite(bytes)
    \/ \E c \in Clients : WatchLocal(c)
    \/ \E c \in Clients : WatchSent(c)
    \/ \E c \in Clients : RemovePending(c)
    \/ \E c \in Clients : SyncGet(c)
    \/ \E c \in Clients : SyncApply(c)
    \/ \E c \in Clients : HandlerPost(c)
    \/ HandlerMirror
    \/ HandlerTrack
    \/ WatchStorage
    \/ WatchStorageDecide
    \/ WatchStorageCommit

SpecOne == InitOne /\ [][NextOne]_vars

\* Runs in which users only save files, of text with '\n' line ends, in the
\* clients' directories, and never remove one.
NextLF ==
    \/ \E c \in Clients : \E bytes \in UserBytesLF : UserWrite(c, bytes)
    \/ \E c \in Clients : WatchLocal(c)
    \/ \E c \in Clients : WatchSent(c)
    \/ \E c \in Clients : RemovePending(c)
    \/ \E c \in Clients : SyncGet(c)
    \/ \E c \in Clients : SyncApply(c)
    \/ \E c \in Clients : HandlerPost(c)
    \/ HandlerMirror
    \/ HandlerTrack
    \/ WatchStorage
    \/ WatchStorageDecide
    \/ WatchStorageCommit

SpecLF == Init /\ [][NextLF]_vars

\* The same with a server that a client's POST /event may fail to reach.
NextFail ==
    \/ NextLF
    \/ \E c \in Clients : WatchSendFails(c)

SpecFail == Init /\ [][NextFail]_vars

\* The system with client writes on clients whose folder may refuse a write.
NextApplyFail ==
    \/ NextLF
    \/ \E c \in Clients : SyncApplyFails(c)

SpecApplyFail == Init /\ [][NextApplyFail]_vars

\* The clients and the POST /event handler, with sync_loop fed by a test
\* harness.
NextHarness ==
    \/ \E c \in Clients : \E bytes \in UserBytes : UserWrite(c, bytes)
    \/ \E c \in Clients : UserDelete(c)
    \/ \E c \in Clients : WatchLocal(c)
    \/ \E c \in Clients : WatchSent(c)
    \/ \E c \in Clients : RemovePending(c)
    \/ \E c \in Clients : HandBatch(c)
    \/ \E c \in Clients : SyncApply(c)
    \/ \E c \in Clients : HandlerPost(c)
    \/ HandlerMirror
    \/ HandlerTrack

SpecHarness == Init /\ [][NextHarness]_vars

\* Runs that start when a file created on client A has reached the server and
\* client B and every loop has come to rest (a state of Spec), after which
\* users save and remove files in the clients' directories.
FirstEvent ==
    [client |-> "A", path |-> "a.txt", hash |-> hash_file("x\n"),
     deleted |-> FALSE, content |-> "x\n", event_id |-> 1]

Synced ==
    /\ synced = [c \in Clients |-> Put(EmptyDict, "a.txt", "x\n")]
    /\ last_event_id = [c \in Clients |-> 1]
    /\ current_state = [c \in Clients |-> Put(EmptyDict, "a.txt", hash_file("x\n"))]
    /\ deleted_paths = [c \in Clients |-> {}]
    /\ pending_events = [c \in Clients |-> {}]
    /\ fs_lock = [c \in Clients |-> "free"]
    /\ known = [c \in Clients |-> Put(EmptyDict, "a.txt", hash_file("x\n"))]
    /\ wl = [c \in Clients |-> WlIdle]
    /\ sl = [c \in Clients |-> SlIdle]
    /\ storage = Put(EmptyDict, "a.txt", "x\n")
    /\ file_events = {FirstEvent}
    /\ event_id_seq = 1
    /\ txn = {}
    /\ recently_written_files = EmptyDict
    /\ srv_known = Put(EmptyDict, "a.txt", hash_file("x\n"))
    /\ ws = WsIdle
    /\ handler = HandlerIdle
    /\ processed = [c \in Clients |-> {1}]
    /\ ROOT = EmptyDict
    /\ INDEX_FILE = EmptyDict
    /\ files_log = 0
    /\ now = 1
    /\ last_req = NoPost
    /\ last_resp = NoResp
    /\ SYNC_DIR = [c \in Clients |-> EmptyDict]
    /\ STATE_FILE = [c \in Clients |-> {}]
    /\ so = [c \in Clients |-> SoIdle]
    /\ base_sync = [c \in Clients |-> EmptyDict]
    /\ main = MainServing
    /\ util = UtilIdle
    /\ LOCAL_FOLDER = EmptyDict
    /\ LOCAL_STATE = {}
    /\ sync_b = SyncBIdle
    /\ ROOT_mtime = EmptyDict

InitSynced ==
    /\ Synced
    /\ edits = 0
    /\ limits = [edits |-> MaxEdits, events |-> MaxEventsSynced]

NextSynced ==
    \/ \E c \in Clients : \E bytes \in UserBytesLF : UserWrite(c, bytes)
    \/ \E c \in Clients : UserDelete(c)
    \/ \E c \in Clients : WatchLocal(c)
    \/ \E c \in Clients : WatchSent(c)
    \/ \E c \in Clients : RemovePending(c)
    \/ \E c \in Clients : SyncGet(c)
    \/ \E c \in Clients : SyncApply(c)
    \/ \E c \in Clients : HandlerPost(c)
    \/ HandlerMirror
    \/ HandlerTrack
    \/ WatchStorage
    \/ WatchStorageDecide
    \/ WatchStorageDelete
    \/ WatchStorageCommit

SpecSynced == InitSynced /\ [][NextSynced]_vars

\* The polling server alone, taking requests of any client.
InitLog == Start /\ limits = [edits |-> MaxEdits, events |-> MaxLog]

NextServer ==
    \/ \E bytes \in UserBytesLF : RootWrite(bytes)
    \/ RootDelete
    \/ Tick
    \/ GetIndex
    \/ \E rel \in RelPaths :
       \E base_sha \in {None} \cup {sha256_of_file(b) : b \in UserBytesLF} :
       \E data \in UserBytesLF : PostUpload(rel, base_sha, data)
    \/ \E rel \in RelPaths : PostDelete(rel)

\* The polling server from the call of main(); its handler takes requests
\* once main() is in serve_forever, and the storage folder can be edited at
\* any time.
InitBoot == Stopped /\ main = MainBoot /\ util = UtilIdle /\ limits = [edits |-> MaxEdits, events |-> MaxLog]

NextBoot ==
    \/ MainConnects
    \/ MainConnectFails
    \/ NextServer

SpecBoot == InitBoot /\ [][NextBoot]_vars

SpecServer == InitLog /\ [][NextServer]_vars

\* The polling server with two clients running sync_once, and users who
\* save and remove files in the clients' folders.
NextPoll ==
    \/ \E c \in Clients : \E bytes \in UserBytesLF : LocalWrite(c, bytes)
    \/ \E c \in Clients : LocalDelete(c)
    \/ Tick
    \/ \E c \in Clients : SyncOnceStart(c)
    \/ \E c \in Clients : SyncOnceDelete(c)
    \/ \E c \in Clients : SyncOnceRefresh(c)
    \/ \E c \in Clients : SyncOnceUpload(c)
    \/ \E c \in Clients : SyncOnceIndex(c)
    \/ \E c \in Clients : SyncOnceDownload(c)
    \/ \E c \in Clients : SyncOnceSave(c)

SpecPoll == InitLog /\ [][NextPoll]_vars

\* ================================================================ claims

\* What one more pass of watch_local on client c would do from its start.
WatchLocalPass(c) ==
    WatchFromScan(c, synced[c], deleted_paths[c], known[c], current_state[c],
                  DOMAIN synced[c], EmptyDict)

\* What one more pass of watch_storage would do from its start.
WatchStoragePass == StorageFromWalk(storage, srv_known, DOMAIN storage, EmptyDict)

\* Every loop has run to quiescence: nothing is in flight, every cursor is at
\* the end of the log, and one more pass of each watcher would send nothing
\* and leave its snapshot as it is.
Quiescent ==
    /\ handler.pc = "idle"
    /\ ws.pc = "idle"
    /\ txn = {}
    /\ WatchStoragePass.pc = "end"
    /\ WatchStoragePass.current = srv_known
    /\ \A c \in Clients :
          /\ wl[c].pc = "idle"
          /\ sl[c].pc = "idle"
          /\ fs_lock[c] = "free"
          /\ get_events(last_event_id[c]) = <<>>
          /\ WatchLocalPass(c).pc = "end"
          /\ WatchLocalPass(c).current = known[c]

EventsOf(rel) == {r \in file_events : r.path = rel}

\* The highest-sequence event of the log for a path that has events.
LatestEvent(rel) ==
    CHOOSE r \in EventsOf(rel) : \A q \in EventsOf(rel) : q.event_id <= r.event_id

\* The directory dir holds for rel what event e says: the event's content
\* for Updated, no file for Deleted.
Matches(dir, rel, e) ==
    IF e.deleted THEN rel \notin DOMAIN dir
    ELSE rel \in DOMAIN dir /\ dir[rel] = e.content

\* C1: at quiescence every client's directory holds, for each path with
\* events, the state given by the highest-sequence event for that path.
C1_ConvergesToLatestEvent ==
    Quiescent =>
        \A c \in Clients : \A rel \in Paths :
            EventsOf(rel) # {} => Matches(synced[c], rel, LatestEvent(rel))

\* Ids of the events a GET /sync answer has handed to client c so far.
Served(c) == processed[c] \cup {sl[c].events[i].event_id : i \in DOMAIN sl[c].events}

AllRows == file_events \cup txn

MaxOf(S) == IF S = {} THEN 0 ELSE CHOOSE m \in S : \A x \in S : x <= m

\* C6: after a batch last_event_id is the sequence of the last event taken,
\* and no committed event at or below the cursor was left out: every event
\* of the log is processed, none skipped for good.
C6_CursorGapFree ==
    \A c \in Clients :
        /\ last_event_id[c] = MaxOf(processed[c])
        /\ \A r \in file_events :
              r.event_id <= last_event_id[c] => r.event_id \in processed[c]

\* C7: no event becomes visible (is committed) after a reader has been served
\* an event with a higher sequence.
C7_PrefixConsistentReads ==
    [][\A r \in file_events' \ file_events :
          \A c \in Clients : \A i \in Served(c) : i < r.event_id]_vars

\* C8: the sequence numbers of the rows inserted so far, committed or not,
\* are pairwise distinct, and every newly inserted row gets a number greater
\* than all handed out before it; an append running while another one is
\* still uncommitted is not refused.
C8_UniqueIds == \A r, q \in AllRows : r.event_id = q.event_id => r = q

C8_SequenceUniqueIncreasing ==
    [][/\ C8_UniqueIds'
       /\ \A r \in AllRows' \ AllRows :
             /\ r.event_id > event_id_seq
             /\ \A q \in AllRows : r.event_id > q.event_id]_vars

\* Two appends for the same path overlap: the row of watch_storage is still
\* uncommitted when the handler's row, inserted after it, is committed.
C8_Witness ==
    \E r \in txn : \E q \in file_events :
        q.path = r.path /\ q.event_id > r.event_id /\ q.client \in Clients

SyncStep(c) == sl[c].pc \in {"got", "apply"} /\ sl'[c] # sl[c]

\* The step is watch_local of client c calling send_event.
SendStep(c) == wl[c].pc # "send" /\ wl'[c].pc = "send"

\* C2: after one local change, a client's sync_loop never writes the file
\* when it takes the client's own Updated event, no client sends a second
\* event, and the log stays short of the room the run has: the exchange ends.
C2_OwnEchoNotWritten ==
    \A c \in Clients :
        SyncStep(c) =>
            LET e == Head(sl[c].events)
            IN  (e.client = c /\ ~e.deleted) =>
                    /\ ApplyEvent(c, e, ClientState(c), pending_events[c]).fs_op = "none"
                    /\ synced'[c] = synced[c]

C2_ExchangeBounded ==
    /\ event_id_seq < MaxEventsOne
    /\ \A c \in Clients : Cardinality({r \in AllRows : r.client = c}) <= 1

C2_EchoSuppression == [][C2_OwnEchoNotWritten /\ C2_ExchangeBounded']_vars

\* A client created a file, pushed it, took its own event back from the log,
\* and the file is still what it pushed; every loop is quiet.
C2_Witness ==
    /\ Quiescent
    /\ \E c \in Clients : \E r \in file_events :
          /\ r.client = c /\ ~r.deleted
          /\ r.event_id \in processed[c]
          /\ r.path \in DOMAIN synced[c]
          /\ hash_file(synced[c][r.path]) = r.hash

\* C3: the first event of the log is a client's push of the file it created;
\* when every loop is quiet, the other client has a file at that path whose
\* fingerprint is the one that was pushed (so its content is what was written).
C3_RoundTrip ==
    Quiescent =>
        \A r \in file_events :
            (r.event_id = 1 /\ r.client \in Clients /\ ~r.deleted) =>
                \A d \in Clients \ {r.client} :
                    /\ r.path \in DOMAIN synced[d]
                    /\ hash_file(synced[d][r.path]) = r.hash

\* C4: on any state of a client and any event of the log, the for loop's body
\* run a second time on the same event leaves the directory, current_state,
\* deleted_paths and the cursor as the first run left them, and neither
\* writes nor removes a file.
C4_IdempotentApply ==
    \A c \in Clients : \A e \in file_events :
        LET once == ApplyEvent(c, e, ClientState(c), pending_events[c])
            twice == ApplyEvent(c, e,
                                [synced |-> once.synced,
                                 current_state |-> once.current_state,
                                 deleted_paths |-> once.deleted_paths,
                                 last_event_id |-> once.last_event_id],
                                pending_events[c])
        IN  /\ twice.synced = once.synced
            /\ twice.current_state = once.current_state
            /\ twice.deleted_paths = once.deleted_paths
            /\ twice.last_event_id = once.last_event_id
            /\ twice.fs_op = "none"

\* sync_loop has written another client's Updated event to the directory and
\* the same event is the next one of its batch.
C4_Witness ==
    \E c \in Clients :
        /\ sl[c].pc = "apply"
        /\ LET e == Head(sl[c].events)
           IN  /\ e.event_id \in processed[c]
               /\ e.client # c /\ ~e.deleted
               /\ Get(synced[c], e.path) = e.content
               /\ Get(current_state[c], e.path) = e.hash
               /\ ApplyKind(c, e, current_state[c], pending_events[c]) = "skip_same"

\* C5: an event handed to sync_loop after an event of the same path with a
\* higher sequence has been taken changes neither the directory nor
\* current_state.
C5_SequenceGating ==
    [][\A c \in Clients :
          SyncStep(c) =>
              LET e == Head(sl[c].events)
              IN  (\E q \in file_events :
                      /\ q.path = e.path
                      /\ q.event_id \in processed[c]
                      /\ q.event_id > e.event_id)
                  => /\ synced'[c] = synced[c]
                     /\ current_state'[c] = current_state[c]]_vars

\* C10: when sync_loop takes a Deleted event of another node, the file is
\* gone from the directory after the step and the path is in deleted_paths;
\* the path stays in deleted_paths until an Updated event is written over it,
\* and watch_local sends no Updated event for a path in deleted_paths.
C10_DeleteApplied ==
    \A c \in Clients :
        SyncStep(c) =>
            LET e == Head(sl[c].events)
            IN  (e.deleted /\ e.client # c) =>
                    /\ e.path \notin DOMAIN synced'[c]
                    /\ e.path \in deleted_paths'[c]

C10_NoRecreation ==
    \A c \in Clients :
        SendStep(c) =>
            (~wl'[c].req.deleted => wl'[c].req.path \notin deleted_paths[c])

C10_StaysDeleted ==
    \A c \in Clients : \A d \in file_events :
        (d.deleted /\ d.client # c /\ d.event_id \in processed[c]) =>
            \/ d.path \in deleted_paths[c]
            \/ \E q \in file_events :
                  /\ q.path = d.path /\ ~q.deleted
                  /\ q.event_id > d.event_id
                  /\ q.event_id \in processed[c]

C10_DeletionPropagates ==
    [][C10_DeleteApplied /\ C10_NoRecreation /\ C10_StaysDeleted']_vars

\* The file was on A and on B, A's user removed it, A's Deleted event is in
\* the log, B has taken it, and B has no file and sends nothing.
C10_Witness ==
    \E d \in file_events : \E u \in file_events :
        /\ d.deleted /\ d.client = "A"
        /\ ~u.deleted /\ u.path = d.path /\ u.event_id < d.event_id
        /\ {u.event_id, d.event_id} \subseteq processed["B"]
        /\ d.path \notin DOMAIN synced["B"]
        /\ d.path \notin DOMAIN synced["A"]
        /\ sl["B"].pc = "idle"
        /\ wl["B"].pc = "idle"
        /\ WatchLocalPass("B").pc = "end"
        /\ \A r \in AllRows : r.client # "B"

\* The Deleted events that clients A and B sent for path rel.
DeletedBy(c, rel) ==
    {r \in file_events : r.client = c /\ r.path = rel /\ r.deleted}

\* Both clients removed rel on their own: each sent a Deleted event, which
\* watch_local does only for a path that no Deleted event has been applied to.
BothDeleted(rel) == DeletedBy("A", rel) # {} /\ DeletedBy("B", rel) # {}

\* Both clients have taken both Deleted events.
BothPulled(rel) ==
    /\ BothDeleted(rel)
    /\ \A c \in Clients : \A d \in DeletedBy("A", rel) \cup DeletedBy("B", rel) :
          d.event_id \in processed[c]

\* The two removals are the only edits the users have made since the file
\* was replicated.
OnlyTwoDeletes(rel) == BothDeleted(rel) /\ edits = Cardinality(Clients)

C11_ApplyDoesNotRaise ==
    \A c \in Clients :
        SyncStep(c) =>
            LET e == Head(sl[c].events)
            IN  e.deleted => last_event_id'[c] >= e.event_id

C11_NoRecreation ==
    \A rel \in Paths :
        OnlyTwoDeletes(rel) =>
            \A r \in AllRows : \A d \in DeletedBy("A", rel) \cup DeletedBy("B", rel) :
                (r.path = rel /\ ~r.deleted) => r.event_id < d.event_id

C11_AbsentOnBoth ==
    \A rel \in Paths :
        (BothPulled(rel) /\ OnlyTwoDeletes(rel))
        => \A c \in Clients : rel \notin DOMAIN synced[c]

\* C11: when clients A and B each removed a replicated file and sent their
\* Deleted events, and the users made no other edit, every step of sync_loop on a Deleted event ends with the
\* cursor at or past the event (the body did not raise), no Updated event
\* for the path follows either Deleted event, and once both clients have
\* taken both events the file is absent on both.
C11_TwoDeletesConverge ==
    [][C11_ApplyDoesNotRaise /\ C11_NoRecreation' /\ C11_AbsentOnBoth']_vars

\* Both users removed the file, both clients have taken both Deleted events,
\* the file is on neither, and every loop is quiet.
C11_Witness ==
    /\ Quiescent
    /\ BothPulled("a.txt")
    /\ OnlyTwoDeletes("a.txt")
    /\ \A c \in Clients : "a.txt" \notin DOMAIN synced[c]

\* ------------------------------------------------- polling variant: claims
\* The step is the polling server's handler taking POST /upload, POST /delete.
UploadStep == files_log' = files_log + 1 /\ last_req'.kind = "upload"
DeleteStep == files_log' = files_log + 1 /\ last_req'.kind = "delete"

\* A conflict as the design states it: the path has an index entry whose sha
\* is neither the sha of the incoming bytes nor the declared base_sha (which
\* may be null).
StatedConflict(idx, rel, base_sha, data) ==
    /\ rel \in DOMAIN idx
    /\ idx[rel].sha # sha256_of_file(data)
    /\ idx[rel].sha # base_sha

\* C12: a POST /upload that is a conflict leaves the file at the path and
\* its index entry as they were.
C12_ConflictDoesNotOverwrite ==
    [][(UploadStep /\ StatedConflict(INDEX_FILE, last_req'.path,
                                     last_req'.base_sha, last_req'.data))
       => LET rel == last_req'.path
          IN  /\ rel \in DOMAIN ROOT => (rel \in DOMAIN ROOT' /\ ROOT'[rel] = ROOT[rel])
              /\ rel \in DOMAIN INDEX_FILE'
              /\ INDEX_FILE'[rel] = INDEX_FILE[rel]]_vars

\* C13: a POST /upload on which the server detects a conflict (line 202) is
\* answered with status 409 and not with {ok, version}.
C13_ConflictIsReported ==
    [][(/\ UploadStep
        /\ is_conflict(INDEX_FILE, last_req'.path, last_req'.base_sha)
        /\ StatedConflict(INDEX_FILE, last_req'.path, last_req'.base_sha,
                          last_req'.data))
       => (last_resp'.code = 409 /\ ~last_resp'.ok)]_vars

\* C14: a POST /upload on which the server detects a conflict (line 202)
\* leaves in ROOT a file named after the path, with the same stem and
\* extension and a conflict marker with the second of the request, that
\* holds the uploaded bytes.
C14_ConflictCopy ==
    [][(UploadStep /\ is_conflict(INDEX_FILE, last_req'.path, last_req'.base_sha))
       => \E sibling \in DOMAIN ROOT' :
             /\ sibling.ext = last_req'.path.ext
             /\ sibling.stem = last_req'.path.stem \o " (conflict @"
                                   \o ToString(now) \o ")"
             /\ sibling # last_req'.path
             /\ ROOT'[sibling] = last_req'.data]_vars

\* The last request was an upload that declared a base_sha, ROOT holds a
\* conflict copy of its path with its bytes, and the path holds them too.
C14_Witness ==
    /\ last_req.kind = "upload"
    /\ last_req.base_sha # None
    /\ \E t \in 1..MaxTime :
          /\ conflict_rel(last_req.path, t) \in DOMAIN ROOT
          /\ ROOT[conflict_rel(last_req.path, t)] = last_req.data
    /\ Cardinality(DOMAIN ROOT) >= 2

\* C15: a POST /upload of bytes whose sha is the one the index holds for the
\* path is answered with success, leaves the index as it was and creates no
\* file.
C15_NoOpUpload ==
    [][(/\ UploadStep
        /\ last_req'.path \in DOMAIN INDEX_FILE
        /\ INDEX_FILE[last_req'.path].sha = sha256_of_file(last_req'.data))
       => /\ last_resp'.code = 200
          /\ INDEX_FILE' = INDEX_FILE
          /\ DOMAIN ROOT' = DOMAIN ROOT]_vars

\* An upload that the design accepts: no conflict, and a new path or bytes
\* that differ from the stored ones.
Accepted(idx, rel, base_sha, data) ==
    /\ ~StatedConflict(idx, rel, base_sha, data)
    /\ rel \in DOMAIN idx => idx[rel].sha # sha256_of_file(data)

C16_AcceptedStores ==
    (UploadStep /\ Accepted(INDEX_FILE, last_req'.path, last_req'.base_sha,
                            last_req'.data))
    => LET rel == last_req'.path
           ver == IF rel \in DOMAIN INDEX_FILE
                  THEN INDEX_FILE[rel].version + 1 ELSE 1
       IN  /\ rel \in DOMAIN ROOT' /\ ROOT'[rel] = last_req'.data
           /\ INDEX_FILE'[rel] = [sha |-> sha256_of_file(last_req'.data),
                                  version |-> ver]
           /\ last_resp'.code = 200 /\ last_resp'.version = ver

C16_VersionOnlyByAccepted ==
    \A rel \in (DOMAIN INDEX_FILE) \cap (DOMAIN INDEX_FILE') :
        INDEX_FILE'[rel].version # INDEX_FILE[rel].version
        => /\ UploadStep
           /\ last_req'.path = rel
           /\ Accepted(INDEX_FILE, rel, last_req'.base_sha, last_req'.data)
           /\ INDEX_FILE'[rel].version = INDEX_FILE[rel].version + 1

\* C16: an accepted upload stores the bytes at the path, sets the entry's
\* sha to their digest and its version to the previous one plus 1 (1 for a
\* new path) and returns it; a version changes by one, on an accepted upload
\* of its path, and on no other step.
C16_AcceptedUpload == [][C16_AcceptedStores /\ C16_VersionOnlyByAccepted]_vars

\* The bytes data that client c holds for rel are the ones it last exchanged
\* with the server (uploaded, downloaded or found equal to the server's):
\* the user has not modified the file since.
UnmodifiedSinceSync(c, rel, data) ==
    /\ rel \in DOMAIN base_sync[c]
    /\ base_sync[c][rel] = sha256_of_file(data)

\* C17: a client never uploads a file it has not modified since its last
\* full pass over content of the server that differs from it (the content
\* another client uploaded in between); it downloads that content instead.
C17_StaleCopyNotUploaded ==
    [][\A c \in Clients :
          (UploadStep /\ last_req'.client = c)
          => ~(/\ last_req'.path \in STATE_FILE[c]
               /\ UnmodifiedSinceSync(c, last_req'.path, last_req'.data)
               /\ last_req'.path \in DOMAIN INDEX_FILE
               /\ INDEX_FILE[last_req'.path].sha # sha256_of_file(last_req'.data))]_vars

\* C18: a client never uploads a file that is in its state file, that it has
\* not modified since its last full pass, and that the server no longer has
\* (another client deleted it there); it removes its copy instead.
C18_DeletedNotReuploaded ==
    [][\A c \in Clients :
          (UploadStep /\ last_req'.client = c)
          => ~(/\ last_req'.path \in STATE_FILE[c]
               /\ UnmodifiedSinceSync(c, last_req'.path, last_req'.data)
               /\ last_req'.path \notin DOMAIN INDEX_FILE
               /\ last_req'.path \notin DOMAIN ROOT)]_vars

\* Client c ends a completed pass of sync_once in this step (line 126).
SaveStep(c) ==
    /\ so[c].pc = "download"
    /\ so[c].todo = {}
    /\ so'[c].pc = "idle"

\* Client c handles path in its download loop in this step without the pass
\* being aborted (lines 119-123).
DownloadStep(c, path) ==
    /\ so[c].pc = "download"
    /\ so'[c].pc = "download"
    /\ path \in so[c].todo
    /\ path \notin so'[c].todo

\* A deletion request is sent only for a path of the state file that the
\* pass's scan of the folder lacks and that the server index fetched by the
\* pass lists.
C19_DeleteOnlyFromState ==
    \A c \in Clients :
       (DeleteStep /\ last_req'.client = c)
       => /\ last_req'.path \in STATE_FILE[c]
          /\ last_req'.path \notin DOMAIN so[c].lidx
          /\ last_req'.path \in DOMAIN so[c].sidx

\* A server path that is not in the state file and is handled by the download
\* loop is in the folder afterwards, with the server's bytes or with bytes of
\* the sha the index lists.
C19_UnknownPathDownloaded ==
    \A c \in Clients : \A path \in RelPaths :
       (DownloadStep(c, path) /\ path \notin STATE_FILE[c])
       => /\ path \in DOMAIN SYNC_DIR'[c]
          /\ \/ /\ path \in DOMAIN ROOT
                /\ SYNC_DIR'[c][path] = ROOT[path]
             \/ sha256_of_file(SYNC_DIR'[c][path]) = so[c].sidx[path].sha
          /\ ROOT' = ROOT
          /\ INDEX_FILE' = INDEX_FILE

\* The state file changes only at the end of a completed pass, and every
\* completed pass leaves in it the set of paths present in the folder.
C19_StateRewritten ==
    \A c \in Clients :
       /\ STATE_FILE'[c] # STATE_FILE[c] => SaveStep(c)
       /\ SaveStep(c) => STATE_FILE'[c] = DOMAIN SYNC_DIR[c]

Scanning(c) == wl[c].pc # "idle"

\* sync_loop of client c is inside its for loop (lines 76-131) with events of
\* the batch still to apply.
Applying(c) == sl[c].pc = "apply"

\* The two passes are never in progress together, and the lock names the
\* one that is.
C20_Exclusive ==
    \A c \in Clients :
       /\ ~(Scanning(c) /\ Applying(c))
       /\ fs_lock[c] = "watch" <=> Scanning(c)
       /\ fs_lock[c] = "sync" <=> Applying(c)

\* sync_loop applies an event (and so writes or removes a file) only when no
\* watcher pass is in progress, and the step leaves the watcher alone.
C20_NoApplyDuringScan ==
    \A c \in Clients :
       SyncStep(c) => ~Scanning(c) /\ wl'[c] = wl[c] /\ known'[c] = known[c]

\* current_state and deleted_paths change only in a step of sync_loop with no
\* watcher pass in progress, or in a step of the watcher with no batch in
\* application.
C20_SharedStateOneWriter ==
    \A c \in Clients :
       (current_state'[c] # current_state[c] \/ deleted_paths'[c] # deleted_paths[c])
       => \/ SyncStep(c) /\ ~Scanning(c)
          \/ wl[c].pc = "resp" /\ ~Applying(c) /\ sl'[c] = sl[c]

\* C20: on a client a pass of watch_local and the application of a batch by
\* sync_loop each run under fs_lock: they are never in progress together, no
\* file is written or removed by sync_loop between the start and the end of
\* a watcher scan, and current_state / deleted_paths are used by one of them
\* at a time.
C20_MutualExclusion ==
    [][/\ C20_Exclusive'
       /\ C20_NoApplyDuringScan
       /\ C20_SharedStateOneWriter]_vars

\* A watcher pass is blocked in send_event holding the lock while sync_loop
\* of the same client has received a batch and waits for the lock.
C20_Witness ==
    \E c \in Clients :
       /\ wl[c].pc \in {"send", "wait", "resp"}
       /\ fs_lock[c] = "watch"
       /\ sl[c].pc = "got"
       /\ sl[c].events # <<>>

\* ------------------------------------------------------ server: exclusion
\* The step is save_event, called for a client's request, changing
\* STORAGE_DIR or _recently_written_files (lines 117-121, 48-55, 66-67).
MirrorStep ==
    /\ handler.pc \in {"mirror", "track"}
    /\ handler' # handler
    /\ (storage' # storage \/ recently_written_files' # recently_written_files)

\* C21: a pass of watch_storage and the mirroring of a client's event do not
\* interleave; checked in the case the claim names: the mirror write (or
\* removal) of an event for a path never happens while watch_storage has
\* hashed that path and not yet decided about it.
C21_NoWriteBetweenHashAndDecision ==
    [][(MirrorStep /\ storage' # storage)
       => ~(ws.pc = "decide" /\ Get(storage', ws.rel) # Get(storage, ws.rel))]_vars

\* save_event mirrors a client's event and no event of SERVER: the handler's
\* mirroring leaves the file of an Updated event with the event's content
\* and no file for a Deleted event, and the appends of watch_storage leave
\* the storage tree as it is.
C22_MirrorByOrigin ==
    /\ (handler.pc = "mirror" /\ handler' # handler)
       => LET req == wl[handler.client].req
          IN  /\ req.client # SERVER
              /\ req.deleted => req.path \notin DOMAIN storage'
              /\ (~req.deleted /\ req.content # None)
                 => Get(storage', req.path) = WriteText(req.content)
    /\ (AllRows' # AllRows /\ \E r \in AllRows' \ AllRows : r.client = SERVER)
       => storage' = storage

\* C22: once the requests and the passes of watch_storage have quiesced, the
\* storage tree holds for every path with events what the highest-sequence
\* event of the path says: its content for Updated, no file for Deleted.
C22_StorageFollowsLog ==
    Quiescent =>
        \A rel \in Paths :
            EventsOf(rel) # {} => Matches(storage, rel, LatestEvent(rel))

\* The step is sync_loop of client c taking the echo of an event that c
\* pushed and whose entry has left pending_events (lines 46-49 ran before
\* the echo was applied).
ExpiredEchoStep(c) ==
    /\ SyncStep(c)
    /\ LET e == Head(sl[c].events)
       IN  /\ e.client = c
           /\ <<e.path, e.hash, e.deleted>> \notin pending_events[c]

\* The file of client c at the path of event e is a local version newer
\* than e: c pushed its content in an Updated event that follows e in the log.
NewerLocalVersion(c, e) ==
    /\ e.path \in DOMAIN synced[c]
    /\ \E r \in file_events :
          /\ r.client = c
          /\ r.path = e.path
          /\ ~r.deleted
          /\ r.event_id > e.event_id
          /\ r.hash = hash_file(synced[c][e.path])
          /\ r.hash # e.hash

\* C23: when a client takes the echo of its own event after the event's
\* entry has expired, the step does not overwrite or remove a newer local
\* version of the file.
C23_ExpiredEchoHarmless ==
    [][\A c \in Clients :
          (ExpiredEchoStep(c) /\ NewerLocalVersion(c, Head(sl[c].events)))
          => Get(synced'[c], Head(sl[c].events).path)
                = synced[c][Head(sl[c].events).path]]_vars

\* Client c holds at rel content that no event of the log carries and no
\* request in flight announces: a local change that has not been appended.
Unsent(c, rel) ==
    /\ rel \in DOMAIN synced[c]
    /\ \A r \in AllRows : ~(r.path = rel /\ ~r.deleted
                             /\ r.hash = hash_file(synced[c][rel]))

\* C24: a local change that is on disk and has not reached the log (its push
\* failed, or it was not scanned yet) is not treated as sent: with no pass in
\* progress, the next scan of watch_local emits it.
C24_FailedPushRetried ==
    \A c \in Clients : \A rel \in Paths :
        (wl[c].pc = "idle" /\ Unsent(c, rel) /\ rel \notin deleted_paths[c])
        => WatchLocalPass(c).pc = "send"

\* The step is sync_loop of client c taking an Updated event that it has to
\* write, and the file does not hold the event's content afterwards: the
\* write failed.
ApplyFailStep(c) ==
    /\ SyncStep(c)
    /\ LET e == Head(sl[c].events)
       IN  /\ ApplyKind(c, e, current_state[c], pending_events[c]) = "write"
           /\ Get(synced'[c], e.path) # WriteText(e.content)

\* After a failed apply the for loop goes on with the rest of the batch.
C25_RestProcessed ==
    \A c \in Clients :
        ApplyFailStep(c) => sl'[c].events = Tail(sl[c].events)

\* C25: when applying an event fails in sync_loop, last_event_id is still
\* advanced to the sequence of that event, and the rest of the batch is
\* processed.
C25_FailedApplyAdvancesCursor ==
    [][/\ C25_RestProcessed
       /\ \A c \in Clients :
             ApplyFailStep(c) => last_event_id'[c] >= Head(sl[c].events).event_id]_vars

\* C26: when writing an Updated event fails in sync_loop, current_state of
\* the path is not set to the event's fingerprint (so that the event is
\* written on a later cycle).
C26_FailedApplyNotMarked ==
    [][\A c \in Clients :
          ApplyFailStep(c)
          => Get(current_state'[c], Head(sl[c].events).path)
                # Head(sl[c].events).hash]_vars

\* ------------------------------------------------ polling server: start-up
\* C27: the polling server serves HTTP requests only after init_db reached
\* the store; when every connection attempt failed, main() does not go on to
\* serve_forever.
C27_NoServingWithoutStore ==
    main.pc = "serving" => main.connected


(***************************************************************************)
(* Persistence of the polling client's state (src/client/client.py 78-90). *)
(***************************************************************************)

\* Longest list handed to save_state, and the number of calls in a row.
MaxList == 3
MaxCalls == 3

\* A file name whose bytes are not UTF-8: os.walk and os.listdir return it as
\* a str with a lone surrogate, 'caf\udce9.txt'.
RawName == "caf\\xe9.txt"

\* The file names of the lists, in the order of Python's str comparison.
FileNames == <<RawName, "file1.txt", "file2.txt", "file3.txt">>
NameSet == {FileNames[i] : i \in DOMAIN FileNames}
StrLess(a, b) ==
    (CHOOSE i \in DOMAIN FileNames : FileNames[i] = a)
        < (CHOOSE i \in DOMAIN FileNames : FileNames[i] = b)

\* sorted(set(files_list)): ascending, one copy of each element.
RECURSIVE sorted_NoDuplicates(_)
sorted_NoDuplicates(files_list) ==
    IF files_list = <<>> THEN <<>>
    ELSE LET x == Head(files_list)
             rest == sorted_NoDuplicates(Tail(files_list))
         IN SelectSeq(rest, LAMBDA y : StrLess(y, x)) \o <<x>>
            \o SelectSeq(rest, LAMBDA y : StrLess(x, y))

\* sorted(files_list) (line 88): a new list, ascending, every element kept.
RECURSIVE sorted(_)
sorted(files_list) ==
    IF files_list = <<>> THEN <<>>
    ELSE LET x == Head(files_list)
             rest == sorted(Tail(files_list))
         IN SelectSeq(rest, LAMBDA y : StrLess(y, x)) \o <<x>>
            \o SelectSeq(rest, LAMBDA y : ~StrLess(y, x))

\* json.dump of a str with ensure_ascii (the default, line 88): the text
\* between double quotes, a character outside ASCII as a \u escape; and
\* json.load of it.
ensure_ascii(name) == IF name = RawName THEN "caf\\udce9.txt" ELSE name
json_str(name) == "\"" \o ensure_ascii(name) \o "\""
json_is_str(tok) == \E n \in NameSet : json_str(n) = tok
json_unstr(tok) == CHOOSE n \in NameSet : json_str(n) = tok

\* json.dump({"files": list}, f) (line 88): the tokens of the object.
json_dump_state(files) ==
    <<"{", "\"files\"", ":", "[">>
        \o [i \in 1..Len(files) |-> json_str(files[i])]
        \o <<"]", "}">>

\* json.load(f) (line 81) on the text of a state file: whether the decoder
\* accepts it, and the dict it returns.
json_loads_state(text) ==
    /\ Len(text) >= 6
    /\ SubSeq(text, 1, 4) = <<"{", "\"files\"", ":", "[">>
    /\ SubSeq(text, Len(text) - 1, Len(text)) = <<"]", "}">>
    /\ \A i \in 5..(Len(text) - 2) : json_is_str(text[i])
json_load_state(text) ==
    [files |-> [i \in 1..(Len(text) - 6) |-> json_unstr(text[i + 4])]]

\* save_state(files_list) (lines 86-90): open(STATE_FILE, "w") truncates or
\* creates the file in the existing folder, json.dump writes the object.
save_state(files_list) ==
    [exists |-> TRUE, text |-> json_dump_state(sorted(files_list))]

\* load_state() (lines 78-84): the decoded file; {"files": []} when the file
\* does not exist (line 79) or json.load raises (lines 82-83).
load_state(file) ==
    IF file.exists /\ json_loads_state(file.text)
    THEN json_load_state(file.text)
    ELSE [files |-> <<>>]

utilOthers == <<clientBVars, main, ROOT, INDEX_FILE, files_log, now, last_req, last_resp,
                SYNC_DIR, STATE_FILE, so, base_sync, envVars, clientVars,
                serverVars>>

\* A call of save_state with the list of this run.
SaveState ==
    /\ util.pc = "state"
    /\ Len(util.calls) < MaxCalls
    /\ util' = [util EXCEPT !.file = save_state(util.arg),
                            !.calls = Append(@, "save_state")]
    /\ UNCHANGED utilOthers

\* A call of load_state.
LoadState ==
    /\ util.pc = "state"
    /\ Len(util.calls) < MaxCalls
    /\ util' = [util EXCEPT !.ret = load_state(util.file),
                            !.calls = Append(@, "load_state")]
    /\ UNCHANGED utilOthers

\* The lists of at most MaxList file names, in any order, with repetitions.
Lists == UNION {[1..n -> NameSet] : n \in 0..MaxList}

\* The state file before the first call: missing, empty, cut short by an
\* interrupted write, or left by an earlier pass.
StateFiles ==
    {NoFile,
     [exists |-> TRUE, text |-> <<>>],
     [exists |-> TRUE, text |-> <<"{", "\"files\"", ":", "[">>],
     [exists |-> TRUE, text |-> json_dump_state(<<"file3.txt">>)]}

InitState ==
    /\ Stopped
    /\ main = MainServing
    /\ limits = [edits |-> MaxEdits, events |-> MaxLog]
    /\ \E L \in Lists : \E f \in StateFiles :
          util = [pc |-> "state", arg |-> L, file |-> f, ret |-> <<>>,
                  calls |-> <<>>]

NextState == SaveState \/ LoadState

SpecState == InitState /\ [][NextState]_vars

\* The last n calls of the run.
LastCalls(n) ==
    IF Len(util.calls) < n THEN <<>>
    ELSE SubSeq(util.calls, Len(util.calls) - n + 1, Len(util.calls))

\* The number of times x occurs in list l.
Count(l, x) == Cardinality({i \in DOMAIN l : l[i] = x})

\* C28, first half: after save_state(L) followed by load_state(), the "files"
\* entry of the returned dict holds exactly the elements of L, each as many
\* times as in L.
C28_RoundTrip ==
    LastCalls(2) = <<"save_state", "load_state">>
        => /\ DOMAIN util.ret = {"files"}
           /\ Len(util.ret.files) = Len(util.arg)
           /\ \A x \in NameSet : Count(util.ret.files, x) = Count(util.arg, x)

\* C28, second half: load_state() on a missing or unreadable state file
\* returns a dict with an empty "files" list.
C28_MissingOrUnreadable ==
    (LastCalls(1) = <<"load_state">>
        /\ (~util.file.exists \/ ~json_loads_state(util.file.text)))
        => util.ret = [files |-> <<>>]

\* C28: client state persistence round trip: save_state(L) followed by
\* load_state() returns a dict whose "files" entry holds exactly the elements
\* of L; when the state file is missing or unreadable, load_state() returns
\* a dict with an empty "files" list.
C28_StateRoundTrip == util.pc = "state" => (C28_RoundTrip /\ C28_MissingOrUnreadable)

\* A list out of order and with a repetition was saved and loaded back.
C28_Witness ==
    /\ util.pc = "state"
    /\ util.calls = <<"load_state", "save_state", "load_state">>
    /\ util.arg = <<"file2.txt", RawName, "file2.txt">>
    /\ util.ret = [files |-> <<RawName, "file2.txt", "file2.txt">>]

\* load_state() found the state file cut short and returned the empty list.
C28_WitnessUnreadable ==
    /\ util.pc = "state"
    /\ util.calls = <<"load_state">>
    /\ util.file.exists
    /\ util.file.text # <<>>
    /\ util.ret = [files |-> <<>>]


(***************************************************************************)
(* Persistence of the polling server's index (src/server/server.py 92-103).*)
(***************************************************************************)

\* The paths, fingerprints and numbers of the index entries. A number is an
\* int or a float (st_mtime is a float, the version an int).
IndexPaths == {RawName, "file1.txt"}
IndexShas == {"abc123"}
PyInt(n) == [float |-> FALSE, n |-> n]
PyFloat(n) == [float |-> TRUE, n |-> n]
IndexMtimes == {PyInt(123456), PyFloat(123456)}
IndexVersions == {PyInt(1), PyInt(2)}
Numbers == IndexMtimes \cup IndexVersions
IndexEntries == [sha : IndexShas, mtime : IndexMtimes, version : IndexVersions]

\* json.dump of a number: repr of the int or of the float; json.load of it.
json_num(x) == IF x.float THEN ToString(x.n) \o ".0" ELSE ToString(x.n)
json_is_num(tok) == \E x \in Numbers : json_num(x) = tok
json_unnum(tok) == CHOOSE x \in Numbers : json_num(x) = tok

\* json.dump of a str with ensure_ascii=False (line 103): the text between
\* double quotes, every character as it is; and json.load of it.
json_text(str) == "\"" \o str \o "\""
json_is_text(tok) == \E n \in IndexPaths \cup IndexShas : json_text(n) = tok
json_untext(tok) == CHOOSE n \in IndexPaths \cup IndexShas : json_text(n) = tok

\* The paths of idx in the order json.dump walks them.
PathsInOrder(idx) == SelectSeq(FileNames, LAMBDA n : n \in DOMAIN idx)

\* json.dump(idx, f, ensure_ascii=False, indent=2) (line 103): the tokens of
\* the object, one entry after the other.
json_dump_entry(path, e) ==
    <<json_text(path), "{", "\"sha\"", json_text(e.sha),
      "\"mtime\"", json_num(e.mtime), "\"version\"", json_num(e.version), "}">>
RECURSIVE json_dump_entries(_, _)
json_dump_entries(idx, paths) ==
    IF paths = <<>> THEN <<>>
    ELSE json_dump_entry(Head(paths), idx[Head(paths)])
            \o json_dump_entries(idx, Tail(paths))
json_dump_index(idx) == <<"{">> \o json_dump_entries(idx, PathsInOrder(idx)) \o <<"}">>

\* The file object of open(INDEX_FILE, "w", encoding="utf-8") (line 102)
\* encodes what it is given: a lone surrogate raises UnicodeEncodeError, and
\* the file keeps what was written before it.
utf8_encodable(tok) == tok # json_text(RawName)
utf8_prefix(tokens) ==
    IF \A i \in DOMAIN tokens : utf8_encodable(tokens[i]) THEN tokens
    ELSE SubSeq(tokens, 1,
                (CHOOSE i \in DOMAIN tokens :
                    /\ ~utf8_encodable(tokens[i])
                    /\ \A j \in 1..(i - 1) : utf8_encodable(tokens[j])) - 1)

\* json.load(f) (line 99) on the text of an index file: whether the decoder
\* accepts it, and the dict it returns.
json_loads_entry(t) ==
    /\ json_is_text(t[1]) /\ t[2] = "{"
    /\ t[3] = "\"sha\"" /\ json_is_text(t[4])
    /\ t[5] = "\"mtime\"" /\ json_is_num(t[6])
    /\ t[7] = "\"version\"" /\ json_is_num(t[8])
    /\ t[9] = "}"
json_loads_index(text) ==
    /\ Len(text) >= 2
    /\ (Len(text) - 2) % 9 = 0
    /\ text[1] = "{" /\ text[Len(text)] = "}"
    /\ \A k \in 0..(((Len(text) - 2) \div 9) - 1) :
          json_loads_entry(SubSeq(text, 2 + 9 * k, 10 + 9 * k))
json_load_index(text) ==
    LET n == (Len(text) - 2) \div 9
        key(k) == json_untext(text[2 + 9 * k])
    IN [p \in {key(k) : k \in 0..(n - 1)} |->
          LET k == CHOOSE k \in 0..(n - 1) : key(k) = p
          IN [sha |-> json_untext(text[5 + 9 * k]),
              mtime |-> json_unnum(text[7 + 9 * k]),
              version |-> json_unnum(text[9 + 9 * k])]]

\* What a call returned or raised.
Returned(value) == [raised |-> "no", value |-> value]
Raised(exception) == [raised |-> exception, value |-> EmptyDict]

\* save_index(idx) (lines 101-103): open(INDEX_FILE, "w") truncates or
\* creates the file in ROOT, json.dump writes the object; an exception of
\* the write leaves the function, and the with statement closes the file.
save_index_file(idx) ==
    [exists |-> TRUE, text |-> utf8_prefix(json_dump_index(idx))]
save_index_ret(idx) ==
    IF utf8_prefix(json_dump_index(idx)) = json_dump_index(idx)
    THEN Returned(EmptyDict)
    ELSE Raised("UnicodeEncodeError")

\* load_index() (lines 92-99): {} when INDEX_FILE does not exist (lines
\* 96-97), else the decoded file; an exception of json.load leaves the
\* function.
load_index(file) ==
    IF ~file.exists THEN Returned(EmptyDict)
    ELSE IF json_loads_index(file.text) THEN Returned(json_load_index(file.text))
    ELSE Raised("JSONDecodeError")

\* A call of save_index with the index of this run.
SaveIndex ==
    /\ util.pc = "index"
    /\ Len(util.calls) < MaxCalls
    /\ util' = [util EXCEPT !.file = save_index_file(util.arg),
                            !.ret = save_index_ret(util.arg),
                            !.calls = Append(@, "save_index")]
    /\ UNCHANGED utilOthers

\* A call of load_index.
LoadIndex ==
    /\ util.pc = "index"
    /\ Len(util.calls) < MaxCalls
    /\ util' = [util EXCEPT !.ret = load_index(util.file),
                            !.calls = Append(@, "load_index")]
    /\ UNCHANGED utilOthers

\* The index mappings over IndexPaths.
Indexes == UNION {[D -> IndexEntries] : D \in SUBSET IndexPaths}

\* The index file before the first call: missing, or left by an earlier
\* request.
IndexFiles ==
    {NoFile,
     [exists |-> TRUE,
      text |-> json_dump_index([p \in {"file1.txt"} |->
                  [sha |-> "abc123", mtime |-> PyFloat(123456), version |-> PyInt(2)]])]}

InitIndex ==
    /\ Stopped
    /\ main = MainServing
    /\ limits = [edits |-> MaxEdits, events |-> MaxLog]
    /\ \E idx \in Indexes : \E f \in IndexFiles :
          util = [pc |-> "index", arg |-> idx, file |-> f, ret |-> Returned(EmptyDict),
                  calls |-> <<>>]

NextIndex == SaveIndex \/ LoadIndex

SpecIndex == InitIndex /\ [][NextIndex]_vars

\* save_index(idx) followed by load_index() returns a mapping equal to idx.
C29_RoundTrip ==
    LastCalls(2) = <<"save_index", "load_index">> => util.ret = Returned(util.arg)

\* load_index() without an index file returns the empty mapping.
C29_NoIndexFile ==
    (LastCalls(1) = <<"load_index">> /\ ~util.file.exists)
        => util.ret = Returned(EmptyDict)

\* C29: server index persistence round trip: for any index mapping idx
\* (path -> {sha, mtime, version}), save_index(idx) followed by load_index()
\* returns a mapping equal to idx; when no index file exists, load_index()
\* returns the empty mapping.
C29_IndexRoundTrip == util.pc = "index" => (C29_RoundTrip /\ C29_NoIndexFile)

\* The round trip of an index whose paths are all valid text.
C29_TextPathsRoundTrip ==
    (util.pc = "index" /\ RawName \notin DOMAIN util.arg) => C29_RoundTrip

\* An index with an entry of each kind of number was saved and loaded back.
C29_TextPathsReached ==
    /\ util.pc = "index"
    /\ util.calls = <<"load_index", "save_index", "load_index">>
    /\ util.arg = [p \in {"file1.txt"} |->
                     [sha |-> "abc123", mtime |-> PyInt(123456), version |-> PyInt(1)]]
    /\ util.ret = Returned(util.arg)


\* The file rel on client c's disk has a fingerprint that differs from both
\* the watcher's last snapshot and the applied state.
Diverged(c, rel) ==
    /\ rel \in DOMAIN synced[c]
    /\ hash_file(synced[c][rel]) # Get(known[c], rel)
    /\ hash_file(synced[c][rel]) # Get(current_state[c], rel)

\* C30: observer completeness: whenever a file's on-disk fingerprint differs
\* from both known and current_state (a file re-created at a path that was
\* deleted locally or removed by a remote Deleted event included), the next
\* scan of watch_local emits an Updated event for it.
C30_ObserverComplete ==
    \A c \in Clients : \A rel \in Paths :
        (wl[c].pc = "idle" /\ Diverged(c, rel))
        => /\ WatchLocalPass(c).pc = "send"
           /\ WatchLocalPass(c).req.path = rel
           /\ ~WatchLocalPass(c).req.deleted

\* The same for the paths that are not in deleted_paths.
C30_CompleteOutsideDeletedPaths ==
    \A c \in Clients : \A rel \in Paths :
        (wl[c].pc = "idle" /\ Diverged(c, rel) /\ rel \notin deleted_paths[c])
        => /\ WatchLocalPass(c).pc = "send"
           /\ WatchLocalPass(c).req.path = rel
           /\ ~WatchLocalPass(c).req.deleted


\* watch_local of client c is in send_event with an Updated event.
SendsUpdated(c) == wl[c].pc = "send" /\ ~wl[c].req.deleted

\* The fingerprint watch_local sends differs from (or is absent from) the
\* snapshot of the previous scan and differs from current_state[path].
C31_OnlyOnDivergence ==
    \A c \in Clients :
        SendsUpdated(c)
        => /\ wl[c].req.hash # Get(known[c], wl[c].req.path)
           /\ wl[c].req.hash # Get(current_state[c], wl[c].req.path)

\* The one edit of the run was made elsewhere (the first event of the log is
\* of another origin), so every file of client c was written by sync_loop.
OnlySyncWrote(c) ==
    /\ limits.edits = 1
    /\ \E r \in AllRows : r.event_id = 1 /\ r.client # c

\* A file of client c that was written by sync_loop and by nobody else is
\* not sent by watch_local.
C31_NotForSyncedFile ==
    \A c \in Clients : OnlySyncWrote(c) => ~SendsUpdated(c)

\* C31: observer soundness: watch_local emits an Updated event for a path
\* only if the file's fingerprint differs from (or is absent from) the
\* previous scan's snapshot and also differs from current_state[path]; it
\* never emits an event for a file whose content was just written by
\* sync_loop.
C31_ObserverSound == C31_OnlyOnDivergence /\ C31_NotForSyncedFile


\* watch_local of client c is in send_event with a Deleted event.
SendsDeleted(c) == wl[c].pc \in {"send", "wait", "resp"} /\ wl[c].req.deleted

\* The step is the start of a pass of watch_local of client c.
PassStartStep(c) ==
    /\ wl[c].pc = "idle"
    /\ fs_lock[c] = "free"
    /\ (wl'[c] # wl[c] \/ known'[c] # known[c])

\* The step is send_event returning to watch_local of client c.
SentStep(c) == wl[c].pc = "resp" /\ wl'[c] # wl[c]

\* A Deleted event is sent only for a path of the previous scan that the
\* current scan did not find and that is not in deleted_paths, where
\* sync_loop puts the path of every remote Deleted event it applies; the
\* event carries no fingerprint.
C32_DeletedOnlyForLocalRemoval ==
    \A c \in Clients :
        SendsDeleted(c)
        => /\ wl[c].req.path \in DOMAIN known[c]
           /\ wl[c].req.path \notin DOMAIN wl[c].current
           /\ wl[c].req.path \notin deleted_paths[c]
           /\ wl[c].req.hash = None

\* A pass that starts with a path of known absent from the folder sends a
\* Deleted event for it, unless the path is in deleted_paths: then it sends
\* nothing and drops the path from known.
C32_PassStart ==
    \A c \in Clients : \A rel \in Paths :
        (PassStartStep(c) /\ rel \in DOMAIN known[c] /\ rel \notin DOMAIN synced[c])
        => IF rel \in deleted_paths[c]
           THEN wl'[c].pc = "idle" /\ rel \notin DOMAIN known'[c]
           ELSE /\ wl'[c].pc = "send"
                /\ wl'[c].req = [client |-> c, path |-> rel, hash |-> None,
                                 deleted |-> TRUE, content |-> None]

\* When send_event returns from a Deleted event, (path, None, True) is in
\* pending_events and the path in deleted_paths; the pass sends no second
\* Deleted event for the path, and at its end the path is out of known.
C32_Registered ==
    \A c \in Clients :
        (SentStep(c) /\ wl[c].req.deleted)
        => /\ <<wl[c].req.path, None, TRUE>> \in pending_events'[c]
           /\ wl[c].req.path \in deleted_paths'[c]
           /\ ~(wl'[c].pc = "send" /\ wl'[c].req.path = wl[c].req.path)
           /\ (wl'[c].pc = "idle" => wl[c].req.path \notin DOMAIN known'[c])

Committed(c) ==
    /\ wl[c].pc \in {"wait", "resp"}
    /\ \E r \in file_events :
          /\ r.client = c
          /\ r.path = wl[c].req.path
          /\ r.hash = wl[c].req.hash
          /\ r.deleted = wl[c].req.deleted

\* C33: the pending entry is registered before the append: at every point
\* where an event a client pushed is visible to GET /sync, the tuple
\* (path, fingerprint, deleted) is in the client's pending_events.
C33_PendingBeforeAppend ==
    \A c \in Clients :
        Committed(c)
        => <<wl[c].req.path, wl[c].req.hash, wl[c].req.deleted>> \in pending_events[c]


\* The step is sync_loop of client c taking an event that it recognises as
\* the echo of its own push: the origin is c and the event's key is in
\* pending_events.
OwnEchoStep(c) ==
    /\ SyncStep(c)
    /\ LET e == Head(sl[c].events)
       IN  /\ e.client = c
           /\ <<e.path, e.hash, e.deleted>> \in pending_events[c]

\* On its own echo sync_loop advances the cursor to the event's sequence and
\* does not touch the disk, current_state or deleted_paths.
C34_EchoSkipped ==
    \A c \in Clients :
        OwnEchoStep(c)
        => /\ last_event_id'[c] = Max(last_event_id[c], Head(sl[c].events).event_id)
           /\ synced'[c] = synced[c]
           /\ current_state'[c] = current_state[c]
           /\ deleted_paths'[c] = deleted_paths[c]

\* On its own echo sync_loop removes the event's key from pending_events.
C34_EntryRemoved ==
    \A c \in Clients :
        OwnEchoStep(c)
        => LET e == Head(sl[c].events)
           IN  <<e.path, e.hash, e.deleted>> \notin pending_events'[c]

\* C34: echo handling consumes the pending entry: when sync_loop recognises
\* an event as the echo of its own push, it removes that tuple from
\* pending_events, advances the cursor to the event's sequence and does not
\* touch the disk.
C34_EchoConsumesPending == [][C34_EntryRemoved /\ C34_EchoSkipped]_vars

\* The part of C34 that is about the cursor and the disk, as a property of
\* every step.
C34_EchoLeavesDisk == [][C34_EchoSkipped]_vars


\* The step is sync_loop of client c taking an Updated event that it does
\* not recognise as the echo of its own push.
UpdatedStep(c) ==
    /\ SyncStep(c)
    /\ ApplyKind(c, Head(sl[c].events), current_state[c], pending_events[c])
          \in {"skip_same", "write"}

\* The step skips the write: the folder of c is left as it was.
SkipsWrite(c) ==
    ApplyKind(c, Head(sl[c].events), current_state[c], pending_events[c]) = "skip_same"

\* sync_loop skips the write exactly when current_state[path] equals the
\* event's fingerprint; a skip leaves the folder and advances the cursor.
C35_SkipExactly ==
    \A c \in Clients :
        UpdatedStep(c)
        => LET e == Head(sl[c].events)
           IN  /\ SkipsWrite(c) <=> Get(current_state[c], e.path) = e.hash
               /\ SkipsWrite(c) => /\ synced'[c] = synced[c]
                                   /\ last_event_id'[c] = Max(last_event_id[c], e.event_id)

\* Otherwise it writes the event's content to the path, sets
\* current_state[path] to the event's fingerprint and advances the cursor.
C35_WriteOtherwise ==
    \A c \in Clients :
        (UpdatedStep(c) /\ ~SkipsWrite(c))
        => LET e == Head(sl[c].events)
           IN  /\ Get(synced'[c], e.path) = WriteText(e.content)
               /\ Get(current_state'[c], e.path) = e.hash
               /\ last_event_id'[c] = Max(last_event_id[c], e.event_id)

\* Whenever it skips, the file on disk at the path has the event's
\* fingerprint.
C35_SkipMeansDiskMatches ==
    \A c \in Clients :
        (UpdatedStep(c) /\ SkipsWrite(c))
        => LET e == Head(sl[c].events)
           IN  /\ e.path \in DOMAIN synced[c]
               /\ hash_file(synced[c][e.path]) = e.hash

\* C35: Updated apply step: for a non-echo Updated event, sync_loop skips the
\* write exactly when current_state[path] equals the event's fingerprint, and
\* whenever it skips, the file on disk at that path already has that
\* fingerprint; otherwise it writes the event's content to the path, sets
\* current_state[path] to the event's fingerprint and advances the cursor.
C35_UpdatedApply ==
    [][C35_SkipExactly /\ C35_SkipMeansDiskMatches /\ C35_WriteOtherwise]_vars

\* The parts of C35 other than the one about the disk at a skip.
C35_SkipAndWrite == [][C35_SkipExactly /\ C35_WriteOtherwise]_vars


\* C36: server-side echo suppression: with no edits made in the storage
\* folder itself, every change of it is the mirror of a client event, and
\* watch_storage appends no SERVER-origin event: each client event yields
\* exactly one log entry.
C36_NoServerEcho == \A r \in AllRows : r.client # SERVER

\* The same for Updated events alone.
C36_NoUpdatedEcho == \A r \in AllRows : r.client = SERVER => r.deleted

\* ================================ timestamp-based client (src/clientB/client.py)
\* Seconds of the clock in the runs of this client.
MaxTimeB == 3

\* local_index() (lines 26-41): path -> sha and st_mtime of every file of
\* the folder.
local_index_b(dir) ==
    [rel \in DOMAIN dir |-> [sha |-> sha256_of_file(dir[rel].data),
                             mtime |-> dir[rel].mtime]]

\* What get_server_index() returns (lines 43-46) for the index idx: each
\* entry with its sha and its mtime.  An entry's mtime is the st_mtime of its
\* file when the entry's sha was recorded (server.py lines 114, 119, 214);
\* here only the handler writes under ROOT, so that is the file's st_mtime.
get_server_index(idx, mtimes) ==
    [rel \in DOMAIN idx |-> [sha |-> idx[rel].sha,
                             mtime |-> IF rel \in DOMAIN mtimes
                                       THEN mtimes[rel] ELSE 0]]

\* The st_mtime of the files under ROOT after POST /upload of rel at second
\* t: the file of the path is written, and so is the conflict copy if one is
\* stored.
upload_mtime(mtimes, idx, rel, base_sha, t) ==
    LET m1 == IF is_conflict(idx, rel, base_sha)
              THEN Put(mtimes, conflict_rel(rel, t), t) ELSE mtimes
    IN  Put(m1, rel, t)

\* Lines 116-118: the paths of the state file that left the folder and that
\* the server's index holds.
locally_deleted(prev_files, curr_files, sidx) ==
    {path \in prev_files \ curr_files : path \in DOMAIN sidx}

\* Lines 130-137: every path of lidx that sidx lacks is removed from the
\* folder (a file that is gone already is passed over).
remote_deletions(dir, lidx, sidx) ==
    [rel \in {r \in DOMAIN dir : ~(r \in DOMAIN lidx /\ r \notin DOMAIN sidx)}
        |-> dir[rel]]

\* Lines 142-159: what step 6 does with a path of the local index.
step6(lmeta, sidx, path) ==
    IF path \notin DOMAIN sidx THEN "upload_new"
    ELSE IF sidx[path].sha = lmeta.sha THEN "same"
    ELSE IF lmeta.mtime > sidx[path].mtime + 1 THEN "upload"
    ELSE IF sidx[path].mtime > lmeta.mtime + 1 THEN "download"
    ELSE "skip"

\* Somebody other than sync_once acts: a pass that is under way is no
\* longer a pass on its own.
Disturbed == IF sync_b.pc = "idle" THEN sync_b ELSE [sync_b EXCEPT !.quiet = FALSE]

bOthers == <<main, util, SYNC_DIR, STATE_FILE, so, base_sync, envVars, clientVars,
             serverVars>>

\* A user saves a file in LOCAL.
BLocalWrite(bytes) ==
    /\ edits < limits.edits
    /\ \E rel \in RelPaths :
          /\ (rel \in DOMAIN LOCAL_FOLDER => LOCAL_FOLDER[rel].data # bytes)
          /\ LOCAL_FOLDER' = Put(LOCAL_FOLDER, rel, [data |-> bytes, mtime |-> now])
    /\ edits' = edits + 1
    /\ sync_b' = Disturbed
    /\ UNCHANGED <<LOCAL_STATE, ROOT_mtime, ROOT, INDEX_FILE, files_log, now,
                   last_req, last_resp, main, util, SYNC_DIR, STATE_FILE, so,
                   base_sync, limits, clientVars, serverVars>>

\* A user removes a file from LOCAL.
BLocalDelete ==
    /\ edits < limits.edits
    /\ \E rel \in DOMAIN LOCAL_FOLDER : LOCAL_FOLDER' = Pop(LOCAL_FOLDER, rel)
    /\ edits' = edits + 1
    /\ sync_b' = Disturbed
    /\ UNCHANGED <<LOCAL_STATE, ROOT_mtime, ROOT, INDEX_FILE, files_log, now,
                   last_req, last_resp, main, util, SYNC_DIR, STATE_FILE, so,
                   base_sync, limits, clientVars, serverVars>>

\* The clock reaches the next second.
BTick ==
    /\ now < MaxTimeB
    /\ now' = now + 1
    /\ UNCHANGED <<clientBVars, ROOT, INDEX_FILE, files_log, last_req, last_resp,
                   bOthers>>

\* Another client's POST /upload of a file it created.
OtherUpload(rel, data) ==
    /\ main.pc = "serving"
    /\ files_log < limits.events
    /\ LET r == upload(INDEX_FILE, ROOT, rel, None, data, now)
       IN  /\ ROOT' = r.ROOT
           /\ INDEX_FILE' = r.INDEX_FILE
           /\ last_resp' = r.resp
    /\ ROOT_mtime' = upload_mtime(ROOT_mtime, INDEX_FILE, rel, None, now)
    /\ last_req' = [kind |-> "upload", client |-> None, path |-> rel,
                    base_sha |-> None, data |-> data]
    /\ files_log' = files_log + 1
    /\ sync_b' = Disturbed
    /\ UNCHANGED <<LOCAL_FOLDER, LOCAL_STATE, now, bOthers>>

\* Another client's POST /delete.
OtherDelete(rel) ==
    /\ main.pc = "serving"
    /\ files_log < limits.events
    /\ rel \in DOMAIN INDEX_FILE
    /\ LET r == delete(INDEX_FILE, ROOT, rel)
       IN  /\ ROOT' = r.ROOT
           /\ INDEX_FILE' = r.INDEX_FILE
           /\ last_resp' = r.resp
    /\ ROOT_mtime' = Pop(ROOT_mtime, rel)
    /\ last_req' = [kind |-> "delete", client |-> None, path |-> rel,
                    base_sha |-> None, data |-> None]
    /\ files_log' = files_log + 1
    /\ sync_b' = Disturbed
    /\ UNCHANGED <<LOCAL_FOLDER, LOCAL_STATE, now, bOthers>>

\* Steps 1-3 up to the first request (lines 107-118): GET /index,
\* local_index(), load_state(), and the paths to delete on the server.
BSyncOnceStart ==
    /\ sync_b.pc = "idle"
    /\ main.pc = "serving"
    /\ LET idx == refresh_index_from_disk(INDEX_FILE, ROOT)
           sidx == get_server_index(idx, ROOT_mtime)
           lidx == local_index_b(LOCAL_FOLDER)
       IN  /\ INDEX_FILE' = idx
           /\ sync_b' = [pc |-> "delete", sidx |-> sidx, lidx |-> lidx,
                         todo |-> locally_deleted(LOCAL_STATE, DOMAIN lidx, sidx),
                         fresh |-> (DOMAIN lidx) \ (DOMAIN sidx),
                         sent |-> {}, quiet |-> TRUE]
    /\ UNCHANGED <<LOCAL_FOLDER, LOCAL_STATE, ROOT_mtime, ROOT, files_log, now,
                   last_req, last_resp, bOthers>>

\* Lines 119-123: delete_on_server(path) for the next path to delete.
BSyncOnceDelete ==
    /\ sync_b.pc = "delete"
    /\ files_log < limits.events
    /\ \E path \in sync_b.todo :
          /\ LET r == delete(INDEX_FILE, ROOT, path)
             IN  /\ ROOT' = r.ROOT
                 /\ INDEX_FILE' = r.INDEX_FILE
                 /\ last_resp' = r.resp
          /\ ROOT_mtime' = Pop(ROOT_mtime, path)
          /\ last_req' = [kind |-> "delete", client |-> "B", path |-> path,
                          base_sha |-> None, data |-> None]
          /\ sync_b' = [sync_b EXCEPT !.todo = @ \ {path}]
    /\ files_log' = files_log + 1
    /\ UNCHANGED <<LOCAL_FOLDER, LOCAL_STATE, now, bOthers>>

\* Step 4 (lines 126-127): both indexes are read again.
BSyncOnceRefresh ==
    /\ sync_b.pc = "delete"
    /\ sync_b.todo = {}
    /\ LET idx == refresh_index_from_disk(INDEX_FILE, ROOT)
       IN  /\ INDEX_FILE' = idx
           /\ sync_b' = [sync_b EXCEPT
                            !.pc = "remove",
                            !.sidx = get_server_index(idx, ROOT_mtime),
                            !.lidx = local_index_b(LOCAL_FOLDER)]
    /\ UNCHANGED <<LOCAL_FOLDER, LOCAL_STATE, ROOT_mtime, ROOT, files_log, now,
                   last_req, last_resp, bOthers>>

\* Step 5 (lines 130-137) and the local_index() of line 140: the files the
\* server's index lacks are removed from the folder, and the loop of step 6
\* gets the files that are in the folder then.
BSyncOnceRemove ==
    /\ sync_b.pc = "remove"
    /\ LET dir == remote_deletions(LOCAL_FOLDER, sync_b.lidx, sync_b.sidx)
       IN  /\ LOCAL_FOLDER' = dir
           /\ sync_b' = [sync_b EXCEPT !.pc = "update",
                                       !.lidx = local_index_b(dir),
                                       !.todo = DOMAIN dir]
    /\ UNCHANGED <<LOCAL_STATE, ROOT_mtime, ROOT, INDEX_FILE, files_log, now,
                   last_req, last_resp, bOthers>>

\* Step 6 (lines 140-159) for the next path of the local index: a path the
\* server's index lacks is uploaded with base_sha None; a path whose sha
\* differs is uploaded when the local file is newer by more than a second,
\* downloaded when the server's is, and left alone otherwise.  upload_file
\* of a file that is gone and download_file of a file the server answers 404
\* for raise, and main() ends the pass (lines 176-179).
BSyncOnceUpdate ==
    /\ sync_b.pc = "update"
    /\ \E path \in sync_b.todo :
       LET what == step6(sync_b.lidx[path], sync_b.sidx, path)
           base_sha == IF what = "upload" THEN sync_b.sidx[path].sha ELSE None
       IN  IF what \in {"upload_new", "upload"}
           THEN IF path \notin DOMAIN LOCAL_FOLDER
                THEN /\ sync_b' = [sync_b EXCEPT !.pc = "idle"]
                     /\ UNCHANGED <<LOCAL_FOLDER, ROOT_mtime, ROOT, INDEX_FILE,
                                    files_log, last_req, last_resp>>
                ELSE /\ files_log < limits.events
                     /\ LET data == LOCAL_FOLDER[path].data
                            r == upload(INDEX_FILE, ROOT, path, base_sha, data, now)
                        IN  /\ ROOT' = r.ROOT
                            /\ INDEX_FILE' = r.INDEX_FILE
                            /\ last_resp' = r.resp
                            /\ last_req' = [kind |-> "upload", client |-> "B",
                                            path |-> path, base_sha |-> base_sha,
                                            data |-> data]
                     /\ ROOT_mtime' = upload_mtime(ROOT_mtime, INDEX_FILE, path,
                                                   base_sha, now)
                     /\ files_log' = files_log + 1
                     /\ sync_b' = [sync_b EXCEPT
                                      !.todo = @ \ {path},
                                      !.sent = @ \cup {<<path, base_sha>>}]
                     /\ UNCHANGED LOCAL_FOLDER
           ELSE IF what = "download"
           THEN IF path \notin DOMAIN ROOT
                THEN /\ sync_b' = [sync_b EXCEPT !.pc = "idle"]
                     /\ UNCHANGED <<LOCAL_FOLDER, ROOT_mtime, ROOT, INDEX_FILE,
                                    files_log, last_req, last_resp>>
                ELSE /\ LOCAL_FOLDER' = Put(LOCAL_FOLDER, path,
                                            [data |-> ROOT[path], mtime |-> now])
                     /\ sync_b' = [sync_b EXCEPT !.todo = @ \ {path}]
                     /\ UNCHANGED <<ROOT_mtime, ROOT, INDEX_FILE, files_log,
                                    last_req, last_resp>>
           ELSE /\ sync_b' = [sync_b EXCEPT !.todo = @ \ {path}]
                /\ UNCHANGED <<LOCAL_FOLDER, ROOT_mtime, ROOT, INDEX_FILE,
                               files_log, last_req, last_resp>>
    /\ UNCHANGED <<LOCAL_STATE, now, bOthers>>

\* Line 162: the loop of step 7 visits the paths of the server's index as
\* read in step 4.
BSyncOnceIndexed ==
    /\ sync_b.pc = "update"
    /\ sync_b.todo = {}
    /\ sync_b' = [sync_b EXCEPT !.pc = "missing", !.todo = DOMAIN sync_b.sidx]
    /\ UNCHANGED <<LOCAL_FOLDER, LOCAL_STATE, ROOT_mtime, ROOT, INDEX_FILE,
                   files_log, now, last_req, last_resp, bOthers>>

\* Step 7 (lines 162-165) for the next path of the server's index: a path
\* that is not in the folder is downloaded.
BSyncOnceMissing ==
    /\ sync_b.pc = "missing"
    /\ \E path \in sync_b.todo :
          IF path \in DOMAIN LOCAL_FOLDER
          THEN /\ sync_b' = [sync_b EXCEPT !.todo = @ \ {path}]
               /\ UNCHANGED LOCAL_FOLDER
          ELSE IF path \notin DOMAIN ROOT
          THEN /\ sync_b' = [sync_b EXCEPT !.pc = "idle"]
               /\ UNCHANGED LOCAL_FOLDER
          ELSE /\ LOCAL_FOLDER' = Put(LOCAL_FOLDER, path,
                                      [data |-> ROOT[path], mtime |-> now])
               /\ sync_b' = [sync_b EXCEPT !.todo = @ \ {path}]
    /\ UNCHANGED <<LOCAL_STATE, ROOT_mtime, ROOT, INDEX_FILE, files_log, now,
                   last_req, last_resp, bOthers>>

\* Step 8 (line 168): save_state(list(local_index().keys())) ends the pass.
BSyncOnceSave ==
    /\ sync_b.pc = "missing"
    /\ sync_b.todo = {}
    /\ LOCAL_STATE' = DOMAIN local_index_b(LOCAL_FOLDER)
    /\ sync_b' = [sync_b EXCEPT !.pc = "idle"]
    /\ UNCHANGED <<LOCAL_FOLDER, ROOT_mtime, ROOT, INDEX_FILE, files_log, now,
                   last_req, last_resp, bOthers>>

\* The polling server with the timestamp-based client running sync_once, a
\* user who saves and removes files in its folder, and another client.
NextClientB ==
    \/ \E bytes \in UserBytesLF : BLocalWrite(bytes)
    \/ BLocalDelete
    \/ BTick
    \/ \E rel \in RelPaths : \E data \in UserBytesLF : OtherUpload(rel, data)
    \/ \E rel \in RelPaths : OtherDelete(rel)
    \/ BSyncOnceStart
    \/ BSyncOnceDelete
    \/ BSyncOnceRefresh
    \/ BSyncOnceRemove
    \/ BSyncOnceUpdate
    \/ BSyncOnceIndexed
    \/ BSyncOnceMissing
    \/ BSyncOnceSave

SpecClientB == InitLog /\ [][NextClientB]_vars

\* The step is the end of a pass of sync_once that ran to line 168.
PassEndStep ==
    sync_b.pc = "missing" /\ sync_b.todo = {} /\ sync_b'.pc = "idle"

\* C37: when a pass of clientB's sync_once during which nobody else acted
\* ends, every file that was in the folder and had no entry in the server's
\* index when the pass began has been uploaded with base_sha None and is in
\* the folder.
C37_NewLocalFileUploaded ==
    [][(PassEndStep /\ sync_b.quiet)
       => \A path \in sync_b.fresh :
             /\ <<path, None>> \in sync_b.sent
             /\ path \in DOMAIN LOCAL_FOLDER']_vars

\* Under the same conditions the code does the opposite: the file is gone
\* from the folder and was not uploaded.
C37_NewLocalFileRemoved ==
    [][(PassEndStep /\ sync_b.quiet)
       => \A path \in sync_b.fresh :
             /\ <<path, None>> \notin sync_b.sent
             /\ path \notin DOMAIN LOCAL_FOLDER']_vars

\* ================================================= event-log client: restart
\* The process of client c is stopped while its two threads sleep and is
\* started again: the module state is initialised anew (lines 12-18,
\* known = {} of line 140) and __main__ starts sync_loop and watch_local
\* (lines 206-214).  The timer threads of send_event end with the process.
\* SYNC_DIR is on disk and stays as it is.
Restart(c) ==
    /\ wl[c].pc = "idle"
    /\ sl[c].pc = "idle"
    /\ fs_lock[c] = "free"
    /\ <<last_event_id[c], current_state[c], deleted_paths[c],
         pending_events[c], known[c]>> # <<0, EmptyDict, {}, {}, EmptyDict>>
    /\ last_event_id' = [last_event_id EXCEPT ![c] = 0]
    /\ current_state' = [current_state EXCEPT ![c] = EmptyDict]
    /\ deleted_paths' = [deleted_paths EXCEPT ![c] = {}]
    /\ pending_events' = [pending_events EXCEPT ![c] = {}]
    /\ known' = [known EXCEPT ![c] = EmptyDict]
    /\ processed' = [processed EXCEPT ![c] = {}]
    /\ UNCHANGED pollVars
    /\ UNCHANGED <<synced, fs_lock, wl, sl, serverVars, envVars>>

\* Runs that start from the replicated file, in which the user of client B
\* makes one edit and the process of client A is restarted while its copy
\* is older than the log's latest event: every copy A holds was written by
\* its sync_loop.
\* The copy client c holds of some path is not what the log's latest event
\* for the path says.
StaleCopy(c) ==
    \E rel \in Paths :
        EventsOf(rel) # {} /\ ~Matches(synced[c], rel, LatestEvent(rel))

\* The process of client c starts again while its copy is stale.
RestartStale(c) == StaleCopy(c) /\ Restart(c)

InitRestart ==
    /\ Synced
    /\ edits = 0
    /\ limits = [edits |-> 1, events |-> MaxEventsSynced]

NextRestart ==
    \/ \E bytes \in UserBytesLF : UserWrite("B", bytes)
    \/ UserDelete("B")
    \/ RestartStale("A")
    \/ \E c \in Clients : WatchLocal(c)
    \/ \E c \in Clients : WatchSent(c)
    \/ \E c \in Clients : RemovePending(c)
    \/ \E c \in Clients : SyncGet(c)
    \/ \E c \in Clients : SyncApply(c)
    \/ \E c \in Clients : HandlerPost(c)
    \/ HandlerMirror
    \/ HandlerTrack
    \/ WatchStorage
    \/ WatchStorageDecide
    \/ WatchStorageDelete
    \/ WatchStorageCommit

SpecRestart == InitRestart /\ [][NextRestart]_vars

\* The same runs without the restart.
NextNoRestart ==
    \/ \E bytes \in UserBytesLF : UserWrite("B", bytes)
    \/ UserDelete("B")
    \/ \E c \in Clients : WatchLocal(c)
    \/ \E c \in Clients : WatchSent(c)
    \/ \E c \in Clients : RemovePending(c)
    \/ \E c \in Clients : SyncGet(c)
    \/ \E c \in Clients : SyncApply(c)
    \/ \E c \in Clients : HandlerPost(c)
    \/ HandlerMirror
    \/ HandlerTrack
    \/ WatchStorage
    \/ WatchStorageDecide
    \/ WatchStorageDelete
    \/ WatchStorageCommit

SpecNoRestart == InitRestart /\ [][NextNoRestart]_vars

\* Client A appends no Updated event whose content is not the one the log's
\* latest event for the path gives it: A's user saves nothing, so any other
\* content is a copy that A held from before.
C38_NoStaleUpdate ==
    \A r \in file_events' \ file_events :
        (r.client = "A" /\ ~r.deleted /\ EventsOf(r.path) # {})
        => (~LatestEvent(r.path).deleted /\ LatestEvent(r.path).hash = r.hash)

\* A pass of A's sync_loop that ends with the cursor at the end of the log
\* leaves every path as the log's latest event for it says.
C38_SyncLeavesLatest ==
    (/\ SyncStep("A")
     /\ sl'["A"].pc = "idle"
     /\ \A r \in file_events : r.event_id <= last_event_id'["A"])
    => \A rel \in Paths :
          EventsOf(rel) # {} => Matches(synced'["A"], rel, LatestEvent(rel))

\* C38: a client process that starts with a copy of a path that is older
\* than the log's latest event for the path appends no Updated event with
\* that stale content, whichever of watch_local and sync_loop takes fs_lock
\* first, and its sync leaves the path as the log's latest event says.
C38_RestartKeepsNewer == [][C38_NoStaleUpdate /\ C38_SyncLeavesLatest]_vars

\* ============================== polling server: index and storage folder
\* The polling server with clients that send GET /index, POST /upload and
\* POST /delete, and nobody who edits the storage folder.
NextRequests ==
    \/ Tick
    \/ GetIndex
    \/ \E rel \in RelPaths :
       \E base_sha \in {None} \cup {sha256_of_file(b) : b \in UserBytesLF} :
       \E data \in UserBytesLF : PostUpload(rel, base_sha, data)
    \/ \E rel \in RelPaths : PostDelete(rel)

SpecRequests == InitLog /\ [][NextRequests]_vars

\* Every entry of the index has a file under ROOT whose digest is the
\* entry's sha.
IndexMatchesDisk(idx, disk) ==
    \A rel \in DOMAIN idx :
        rel \in DOMAIN disk /\ sha256_of_file(disk[rel]) = idx[rel].sha

\* A POST /delete leaves neither a file nor an index entry at its path.
C39_RemovedIsGone ==
    DeleteStep =>
        (last_req'.path \notin DOMAIN ROOT' /\ last_req'.path \notin DOMAIN INDEX_FILE')

\* C39: after any sequence of POST /upload, POST /delete and GET /index,
\* with no other edit of the storage folder, every index entry refers to a
\* file under ROOT whose digest equals the entry's sha, and a removed path
\* has neither a file nor an index entry.
C39_IndexDiskConsistent ==
    [][IndexMatchesDisk(INDEX_FILE', ROOT') /\ C39_RemovedIsGone]_vars

\* The same for the paths that clients upload and delete, leaving out the
\* conflict copies that the server itself stores.
C39_RequestedPathsConsistent ==
    [][/\ \A rel \in RelPaths \cap DOMAIN INDEX_FILE' :
             rel \in DOMAIN ROOT' /\ sha256_of_file(ROOT'[rel]) = INDEX_FILE'[rel].sha
       /\ C39_RemovedIsGone]_vars

====
